---- MODULE Spec2Model ----
(***************************************************************************)
(* Model of the RAG service request pipeline (python/rag_service.py):      *)
(* decode_request -> predict -> encode_response, with the three handlers   *)
(* _handle_embed, _handle_search and _handle_health, the embedding         *)
(* provider and the vector store the handlers drive.                       *)
(*                                                                         *)
(* Python values are tagged records: [tag |-> "absent"] is a key missing   *)
(* from the request dict, [tag |-> "none"] is None, [tag |-> "str", v]     *)
(* a string, [tag |-> "int", v] an integer, [tag |-> "list", v] a list.    *)
(* Statements and queries are sequences of one-character strings, so that  *)
(* str.strip() is computed; identifiers are atomic strings.  A response    *)
(* dict is a record whose DOMAIN is its key set.                           *)
(*                                                                         *)
(* The providers (python/providers) are modelled on their own: `provider`  *)
(* holds the fields of one provider instance and `server` the embedding    *)
(* endpoint it talks to; `request` is then the method called, `response`   *)
(* what it returned or raised, and `calls` the outbound calls it made.     *)
(* Where two request threads share one instance (SpecRace), pc, request    *)
(* and response are functions of the thread; where a loop is followed      *)
(* step by step (SpecExpand), response holds the list built so far.        *)
(***************************************************************************)
EXTENDS Integers, Sequences, FiniteSets, TLC

VARIABLES pc, request, response, calls, storage, provider, server

vars == <<pc, request, response, calls, storage, provider, server>>

\* ------------------------------------------------------------------ bounds
MaxTextLen == 2
MaxStored == 2

\* ---------------------------------------------------------- Python values
Absent == [tag |-> "absent"]
PyNone == [tag |-> "none"]
PyStr(s) == [tag |-> "str", v |-> s]
PyInt(n) == [tag |-> "int", v |-> n]
PyList(l) == [tag |-> "list", v |-> l]

Chars == {" ", "a"}
Whitespace == {" "}

Texts == UNION {[1..n -> Chars] : n \in 0..MaxTextLen}

RECURSIVE LStrip(_)
LStrip(s) == IF s # <<>> /\ Head(s) \in Whitespace THEN LStrip(Tail(s)) ELSE s

RECURSIVE RStrip(_)
RStrip(s) ==
    IF s # <<>> /\ s[Len(s)] \in Whitespace
    THEN RStrip(SubSeq(s, 1, Len(s) - 1))
    ELSE s

\* str.strip()
Strip(s) == RStrip(LStrip(s))

\* `not v or not v.strip()` of the two field validators
IsBlank(v) == v = <<>> \/ Strip(v) = <<>>

\* dict.get(key, default) on a request field
DictGet(field, default) == IF field.tag = "absent" THEN default ELSE field

\* ------------------------------------------------------------ collaborators
\* A vector [x] * dim, as the test providers return it; x is in hundredths.
Vec(dim, x) == [dim |-> dim, x |-> x]

Raised(msg) == [ok |-> FALSE, err |-> msg]
Returned(val) == [ok |-> TRUE, val |-> val]

\* hash(text): a string hash (any fixed function of the text within a process)
CharCode(c) == IF c = " " THEN 32 ELSE 97

RECURSIVE StrHash(_)
StrHash(text) ==
    IF text = <<>> THEN 7
    ELSE (31 * StrHash(SubSeq(text, 1, Len(text) - 1)) + CharCode(text[Len(text)])) % 1000

\* the provider of the end-to-end tests: [hash(text) % 100 / 100.0] * 384
mock_embed(text) == Vec(384, StrHash(text) % 100)

\* provider.embed(text): raises, or returns the text's vector
EmbedOutcomes(text) == {Raised("provider failure"), Returned(mock_embed(text))}

\* collection.add(...): raises (side_effect) or stores
AddOutcomes == {Raised("store failure"), Returned("stored")}

EmptyStorage == [ids |-> <<>>, embeddings |-> <<>>, documents |-> <<>>, metadatas |-> <<>>]

\* The in-memory store of the end-to-end tests: add appends to the four lists,
\* the metadatas only when they are given.
mock_add(store, ids, embeddings, documents, metadatas) ==
    [ids |-> store.ids \o ids,
     embeddings |-> store.embeddings \o embeddings,
     documents |-> store.documents \o documents,
     metadatas |-> IF metadatas.tag = "list" /\ metadatas.v # <<>>
                   THEN store.metadatas \o metadatas.v
                   ELSE store.metadatas]

\* ------------------------------------------------------- handler outcomes
\* An exception object; NoExc when nothing was raised.
Exc(type, msg) == [type |-> type, msg |-> msg]
NoExc == Exc("none", "")

NoResponse == [none |-> TRUE]

\* What a handler (or its try block) did: the dict it returned, or the
\* exception that left it, the collaborator calls it made, and the store.
Return(resp, cs, store) == [response |-> resp, exc |-> NoExc, calls |-> cs, storage |-> store]
Raise(e, cs, store) == [response |-> NoResponse, exc |-> e, calls |-> cs, storage |-> store]

\* ------------------------------------------------------------------ /embed
FactIdInputs == {Absent, PyNone, PyStr("f1"), PyStr("f2")}
StatementInputs == {Absent} \cup {PyStr(t) : t \in Texts}
ContextIdInputs == {Absent, PyNone, PyStr(""), PyStr("c1")}

EmbedRequests ==
    [endpoint : {"/embed"}, fact_id : FactIdInputs,
     statement : StatementInputs, context_id : ContextIdInputs]

\* EmbedRequest(**request): the error pydantic raises, "" when the request is valid
\* fault variant: the statement validator is missing
MutEmbedNoBlankCheck(req) ==
    IF req.fact_id.tag = "absent" THEN "fact_id: Field required"
    ELSE IF req.fact_id.tag # "str" THEN "fact_id: Input should be a valid string"
    ELSE IF req.statement.tag = "absent" THEN "statement: Field required"
    ELSE IF req.statement.tag # "str" THEN "statement: Input should be a valid string"
    ELSE ""

EmbedRequestError(req) ==
    IF req.fact_id.tag = "absent" THEN "fact_id: Field required"
    ELSE IF req.fact_id.tag # "str" THEN "fact_id: Input should be a valid string"
    ELSE IF req.statement.tag = "absent" THEN "statement: Field required"
    ELSE IF req.statement.tag # "str" THEN "statement: Input should be a valid string"
    ELSE IF IsBlank(req.statement.v) THEN "Statement cannot be empty"
    ELSE ""

\* metadata = {}; if embed_req.context_id: metadata["context_id"] = ...
EmbedMetadata(req) ==
    IF req.context_id.tag = "str" /\ req.context_id.v # ""
    THEN [context_id |-> req.context_id.v]
    ELSE <<>>

\* metadatas=[metadata] if metadata else None
\* fault variant: the metadata dict is sent even when it is empty
MutMetadatasAlwaysSent(metadata) == PyList(<<metadata>>)

MetadatasArg(metadata) ==
    IF DOMAIN metadata # {} THEN PyList(<<metadata>>) ELSE PyNone

EmbedCall(text, out) == [fn |-> "provider.embed", text |-> text, raised |-> ~out.ok]

\* fault variant: a zero vector is stored in place of the embedding
MutAddCallZeroVector(req, embedding, out) ==
    [fn |-> "collection.add",
     ids |-> <<req.fact_id.v>>,
     embeddings |-> <<Vec(embedding.dim, 0)>>,
     documents |-> <<req.statement.v>>,
     metadatas |-> MetadatasArg(EmbedMetadata(req)),
     raised |-> ~out.ok]

AddCall(req, embedding, out) ==
    [fn |-> "collection.add",
     ids |-> <<req.fact_id.v>>,
     embeddings |-> <<embedding>>,
     documents |-> <<req.statement.v>>,
     metadatas |-> MetadatasArg(EmbedMetadata(req)),
     raised |-> ~out.ok]

\* the try block of _handle_embed, given the outcomes of its collaborator calls
\* fault variant: a failed provider.embed is tried a second time
MutEmbedTryRetries(req, embedOut, addOut, store) ==
    LET err == EmbedRequestError(req) IN
    IF err # "" THEN Raise(Exc("ValidationError", err), <<>>, store)
    ELSE LET embedCall == EmbedCall(req.statement.v, embedOut) IN
         IF ~embedOut.ok
         THEN Raise(Exc("ProviderError", embedOut.err), <<embedCall, embedCall>>, store)
         ELSE LET add == AddCall(req, embedOut.val, addOut)
                  cs == <<embedCall, add>>
              IN IF ~addOut.ok
                 THEN Raise(Exc("StoreError", addOut.err), cs, store)
                 ELSE Return([success |-> TRUE,
                              fact_id |-> req.fact_id,
                              message |-> <<"Fact embedded successfully">>],
                             cs,
                             mock_add(store, add.ids, add.embeddings,
                                      add.documents, add.metadatas))

EmbedTry(req, embedOut, addOut, store) ==
    LET err == EmbedRequestError(req) IN
    IF err # "" THEN Raise(Exc("ValidationError", err), <<>>, store)
    ELSE LET embedCall == EmbedCall(req.statement.v, embedOut) IN
         IF ~embedOut.ok
         THEN Raise(Exc("ProviderError", embedOut.err), <<embedCall>>, store)
         ELSE LET add == AddCall(req, embedOut.val, addOut)
                  cs == <<embedCall, add>>
              IN IF ~addOut.ok
                 THEN Raise(Exc("StoreError", addOut.err), cs, store)
                 ELSE Return([success |-> TRUE,
                              fact_id |-> req.fact_id,
                              message |-> <<"Fact embedded successfully">>],
                             cs,
                             mock_add(store, add.ids, add.embeddings,
                                      add.documents, add.metadatas))

\* the `except Exception` clause of _handle_embed
\* fault variant: only validation errors are caught
MutEmbedExceptValueErrorOnly(req, t) ==
    IF t.exc.type = "ValidationError"
    THEN Return([success |-> FALSE,
                 fact_id |-> DictGet(req.fact_id, PyStr("unknown")),
                 message |-> <<"Error: ", t.exc.msg>>],
                t.calls, t.storage)
    ELSE t

EmbedExcept(req, t) ==
    IF t.exc.type # "none"
    THEN Return([success |-> FALSE,
                 fact_id |-> DictGet(req.fact_id, PyStr("unknown")),
                 message |-> <<"Error: ", t.exc.msg>>],
                t.calls, t.storage)
    ELSE t

HandleEmbed(req, embedOut, addOut, store) ==
    EmbedExcept(req, EmbedTry(req, embedOut, addOut, store))

\* ----------------------------------------------------------------- /search
DefaultLimit == 10
MinLimit == 1
MaxLimit == 100

QueryInputs == {Absent} \cup {PyStr(t) : t \in Texts}
LimitInputs == {Absent, PyInt(MinLimit - 1), PyInt(MinLimit), PyInt(MaxLimit), PyInt(MaxLimit + 1)}
ContextIdsInputs == {Absent, PyNone, PyList(<<>>), PyList(<<"X">>), PyList(<<"Y", "X">>)}

SearchRequests ==
    [endpoint : {"/search"}, query : QueryInputs,
     limit : LimitInputs, context_ids : ContextIdsInputs]

\* SearchRequest(**request): the error pydantic raises, "" when the request is valid
\* fault variant: the query validator is missing
MutSearchNoBlankCheck(req) ==
    IF req.query.tag = "absent" THEN "query: Field required"
    ELSE IF req.query.tag # "str" THEN "query: Input should be a valid string"
    ELSE IF req.limit.tag = "int" /\ req.limit.v < MinLimit
         THEN "limit: Input should be greater than or equal to 1"
    ELSE IF req.limit.tag = "int" /\ req.limit.v > MaxLimit
         THEN "limit: Input should be less than or equal to 100"
    ELSE ""

SearchRequestError(req) ==
    IF req.query.tag = "absent" THEN "query: Field required"
    ELSE IF req.query.tag # "str" THEN "query: Input should be a valid string"
    ELSE IF IsBlank(req.query.v) THEN "Query cannot be empty"
    ELSE IF req.limit.tag = "int" /\ req.limit.v < MinLimit
         THEN "limit: Input should be greater than or equal to 1"
    ELSE IF req.limit.tag = "int" /\ req.limit.v > MaxLimit
         THEN "limit: Input should be less than or equal to 100"
    ELSE ""

\* search_req.limit: the given limit, or the field's default
\* fault variant: the store is always asked for the default number of results
MutSearchLimitDefault(req) == DefaultLimit

SearchLimit(req) == IF req.limit.tag = "int" THEN req.limit.v ELSE DefaultLimit

\* where_filter = None; if search_req.context_ids: {"context_id": {"$in": ...}}
\* fault variant: `is not None` in place of the truthiness test
MutWhereFilterAlways(req) ==
    IF req.context_ids.tag = "list"
    THEN [tag |-> "dict", v |-> [context_id |-> ("$in" :> req.context_ids.v)]]
    ELSE PyNone

WhereFilter(req) ==
    IF req.context_ids.tag = "list" /\ req.context_ids.v # <<>>
    THEN [tag |-> "dict", v |-> [context_id |-> ("$in" :> req.context_ids.v)]]
    ELSE PyNone

QueryCall(req, embedding, out) ==
    [fn |-> "collection.query",
     query_embeddings |-> <<embedding>>,
     n_results |-> SearchLimit(req),
     where |-> WhereFilter(req),
     raised |-> ~out.ok,
     returned |-> IF out.ok THEN out.val ELSE PyNone]

\* Distances are in hundredths, scores in ten-thousandths.
DistScale == 100
ScoreScale == 10000

\* round(): to the nearest integer, a tie to the even one
RoundHalfEven(num, den) ==
    LET q == num \div den
        r == num % den
    IN IF 2 * r < den THEN q
       ELSE IF 2 * r > den THEN q + 1
       ELSE IF q % 2 = 0 THEN q ELSE q + 1

\* score = 1.0 / (1.0 + distance); round(score, 4).  The quotient is rounded
\* as a rational; the float quotient rounds the same way for every distance the
\* model draws (it differs only where 1/(1+d) is an exact decimal tie that the
\* nearest double overshoots, as at d = 19999.00).
\* fault variant: the distance is reported as the score
MutScoreNoConversion(distance) == distance * (ScoreScale \div DistScale)

\* fault variant: score = 1.0 - distance
MutScoreComplement(distance) == (DistScale - distance) * (ScoreScale \div DistScale)

Score(distance) == RoundHalfEven(ScoreScale * DistScale, DistScale + distance)

\* SearchResult(fact_id=..., score=round(score, 4), statement=...)
SearchResult(results, i) ==
    [fact_id |-> results.ids[1][i],
     score |-> Score(results.distances[1][i]),
     statement |-> results.documents[1][i]]

\* the loop of _handle_search over results["ids"][0]: the list built from the
\* first n ids
\* fault variant: results are inserted at the front of the list
RECURSIVE MutFormatReversed(_, _)
MutFormatReversed(results, n) ==
    IF n = 0 THEN <<>>
    ELSE <<SearchResult(results, n)>> \o MutFormatReversed(results, n - 1)

RECURSIVE FormatFirst(_, _)
FormatFirst(results, n) ==
    IF n = 0 THEN <<>>
    ELSE Append(FormatFirst(results, n - 1), SearchResult(results, n))

\* What raises while the loop assembles result i: results["distances"][0][i]
\* or results["documents"][0][i] out of range or the key missing, or the
\* division 1.0 / (1.0 + distance) at distance -1.0
ResultError(results, i) ==
    IF "distances" \notin DOMAIN results THEN "'distances'"
    ELSE IF results.distances = <<>> \/ Len(results.distances[1]) < i
         THEN "list index out of range"
    ELSE IF DistScale + results.distances[1][i] = 0 THEN "float division by zero"
    ELSE IF "documents" \notin DOMAIN results THEN "'documents'"
    ELSE IF results.documents = <<>> \/ Len(results.documents[1]) < i
         THEN "list index out of range"
    ELSE ""

\* The exception that ends the loop, "" when it runs to its end: the error of
\* the first result that cannot be assembled.
LookupError(results) ==
    IF results.ids = <<>> THEN ""
    ELSE LET failing == {i \in 1..Len(results.ids[1]) : ResultError(results, i) # ""} IN
         IF failing = {} THEN ""
         ELSE ResultError(results, CHOOSE i \in failing : \A j \in failing : i <= j)

\* search_results after the formatting loop
FormatResults(results) ==
    IF results.tag = "dict" /\ results.ids # <<>>
    THEN FormatFirst(results, Len(results.ids[1]))
    ELSE <<>>

\* the try block of _handle_search, given the outcomes of its collaborator calls
\* fault variant: a failing result ends the loop and the results assembled so
\* far are returned with the error
MutSearchTryKeepsAssembled(req, embedOut, queryOut, store) ==
    LET err == SearchRequestError(req) IN
    IF err # "" THEN Raise(Exc("ValidationError", err), <<>>, store)
    ELSE LET embedCall == EmbedCall(req.query.v, embedOut) IN
         IF ~embedOut.ok
         THEN Raise(Exc("ProviderError", embedOut.err), <<embedCall>>, store)
         ELSE LET cs == <<embedCall, QueryCall(req, embedOut.val, queryOut)>> IN
              IF ~queryOut.ok
              THEN Raise(Exc("StoreError", queryOut.err), cs, store)
              ELSE IF queryOut.val.tag = "dict" /\ LookupError(queryOut.val) # ""
              THEN LET failing == {i \in 1..Len(queryOut.val.ids[1]) :
                                     ResultError(queryOut.val, i) # ""}
                       first == CHOOSE i \in failing : \A j \in failing : i <= j
                   IN Return([results |-> FormatFirst(queryOut.val, first - 1),
                              error |-> LookupError(queryOut.val)], cs, store)
              ELSE Return([results |-> FormatResults(queryOut.val)], cs, store)

SearchTry(req, embedOut, queryOut, store) ==
    LET err == SearchRequestError(req) IN
    IF err # "" THEN Raise(Exc("ValidationError", err), <<>>, store)
    ELSE LET embedCall == EmbedCall(req.query.v, embedOut) IN
         IF ~embedOut.ok
         THEN Raise(Exc("ProviderError", embedOut.err), <<embedCall>>, store)
         ELSE LET cs == <<embedCall, QueryCall(req, embedOut.val, queryOut)>> IN
              IF ~queryOut.ok
              THEN Raise(Exc("StoreError", queryOut.err), cs, store)
              ELSE IF queryOut.val.tag = "dict" /\ LookupError(queryOut.val) # ""
              THEN Raise(Exc(IF LookupError(queryOut.val) = "float division by zero"
                             THEN "ZeroDivisionError" ELSE "LookupError",
                             LookupError(queryOut.val)), cs, store)
              ELSE Return([results |-> FormatResults(queryOut.val)], cs, store)

\* the `except Exception` clause of _handle_search
SearchExcept(t) ==
    IF t.exc.type # "none"
    THEN Return([results |-> <<>>, error |-> t.exc.msg], t.calls, t.storage)
    ELSE t

HandleSearch(req, embedOut, queryOut, store) ==
    SearchExcept(SearchTry(req, embedOut, queryOut, store))

\* ------------------------------------------------- the store's query answers
MaxResults == 2

ResultIds == {"f1", "f2"}
Distances == {0, 10, 30, 1200, 1201, 2000000}

\* the statement stored under an id
DocumentOf(id) == IF id = "f1" THEN <<"a">> ELSE <<" ", "a">>

Hits == UNION {[1..n -> ResultIds \X Distances] : n \in 0..MaxResults}

\* collection.query's dict for a list of (id, distance) hits: parallel arrays,
\* one inner list per query embedding
QueryResult(hits) ==
    [tag |-> "dict",
     ids |-> <<[i \in 1..Len(hits) |-> hits[i][1]]>>,
     distances |-> <<[i \in 1..Len(hits) |-> hits[i][2]]>>,
     documents |-> <<[i \in 1..Len(hits) |-> DocumentOf(hits[i][1])]>>]

DropLast(s) == SubSeq(s, 1, Len(s) - 1)

\* what a Mock collection.query may be set to return: a well-formed answer, an
\* answer whose distances or documents array is one short, an answer with no
\* inner list, or None; and, for hits at the two smallest distances, an
\* answer whose ids array is one short, one without its documents array, and
\* one whose last distance is -1.0
QueryResults ==
    LET near == {h \in Hits : \A i \in 1..Len(h) : h[i][2] <= 10} IN
    {QueryResult(h) : h \in Hits}
    \cup {[QueryResult(h) EXCEPT !.distances = <<DropLast(@[1])>>] : h \in Hits \ {<<>>}}
    \cup {[QueryResult(h) EXCEPT !.documents = <<DropLast(@[1])>>] : h \in Hits \ {<<>>}}
    \cup {[tag |-> "dict", ids |-> <<>>, distances |-> <<>>, documents |-> <<>>], PyNone}
    \cup {[QueryResult(h) EXCEPT !.ids = <<DropLast(@[1])>>] : h \in near \ {<<>>}}
    \cup {[tag |-> "dict", ids |-> QueryResult(h).ids, distances |-> QueryResult(h).distances]
          : h \in near}
    \cup {[QueryResult(h) EXCEPT !.distances = <<Append(DropLast(@[1]), 0 - DistScale)>>]
          : h \in near \ {<<>>}}

QueryOutcomes == {Raised("store failure")} \cup {Returned(r) : r \in QueryResults}

\* ----------------------------------------------------------------- /health
ProviderNames == {"claude", "openai", "ollama", "local"}
EmbeddingDimensions == {384, 768, 1024, 1536, 3072}
HeartbeatErrors == {"", "Connection lost", "Connection failed", "timed out"}

\* self.chroma_client.heartbeat(): returns, or raises with a message
HeartbeatOutcomes == {Returned(TRUE)} \cup {Raised(m) : m \in HeartbeatErrors}

\* self.provider.get_provider_name() and get_embedding_dimension()
ProviderNameOutcomes == {Raised("provider name failure")} \cup {Returned(n) : n \in ProviderNames}
DimensionOutcomes ==
    {Raised("provider dimension failure")} \cup {Returned(d) : d \in EmbeddingDimensions}

HealthRequests == [endpoint : {"/health"}]

\* the inner try of _handle_health: the store's liveness as a status text
ChromadbStatus(hbOut) ==
    IF hbOut.ok THEN <<"connected">> ELSE <<"disconnected: ", hbOut.err>>

\* status = "healthy" if chromadb_status == "connected" else "degraded"
\* fault variant: `if chromadb_status` in place of the comparison
MutHealthStatusTruthy(chromadb_status) ==
    IF chromadb_status # <<>> THEN "healthy" ELSE "degraded"

HealthStatus(chromadb_status) ==
    IF chromadb_status = <<"connected">> THEN "healthy" ELSE "degraded"

HeartbeatCall(out) ==
    [fn |-> "chroma_client.heartbeat", raised |-> ~out.ok,
     err |-> IF out.ok THEN "" ELSE out.err]

ProviderNameCall(out) ==
    [fn |-> "provider.get_provider_name", raised |-> ~out.ok,
     returned |-> IF out.ok THEN out.val ELSE ""]

DimensionCall(out) ==
    [fn |-> "provider.get_embedding_dimension", raised |-> ~out.ok,
     returned |-> IF out.ok THEN out.val ELSE 0]

\* the try block of _handle_health, given the outcomes of its collaborator calls
HealthTry(hbOut, nameOut, dimOut, store) ==
    LET hb == HeartbeatCall(hbOut)
        nm == ProviderNameCall(nameOut)
        dm == DimensionCall(dimOut)
    IN IF ~nameOut.ok THEN Raise(Exc("ProviderError", nameOut.err), <<hb, nm>>, store)
       ELSE IF ~dimOut.ok THEN Raise(Exc("ProviderError", dimOut.err), <<hb, nm, dm>>, store)
       ELSE Return([status |-> HealthStatus(ChromadbStatus(hbOut)),
                    provider |-> nameOut.val,
                    chromadb |-> ChromadbStatus(hbOut),
                    embedding_dimension |-> dimOut.val],
                   <<hb, nm, dm>>, store)

\* the outer `except Exception` clause of _handle_health
\* fault variant: the outer clause is missing and the exception leaves the handler
MutHealthExceptMissing(t) == t

HealthExcept(t) ==
    IF t.exc.type # "none"
    THEN Return([status |-> "unhealthy", provider |-> "unknown",
                 chromadb |-> <<"unknown">>, error |-> t.exc.msg],
                t.calls, t.storage)
    ELSE t

HandleHealth(hbOut, nameOut, dimOut, store) ==
    HealthExcept(HealthTry(hbOut, nameOut, dimOut, store))

\* the `except Exception` clause of predict: the generic failure signal
PredictExcept(h) ==
    IF h.exc.type # "none"
    THEN Return([error |-> h.exc.msg, status_code |-> 500], h.calls, h.storage)
    ELSE h

\* ------------------------------------------------------------ state machine
NoRequest == [endpoint |-> "none"]

\* the service is driven with the fixtures' provider; no instance is modelled
NoProvider == [kind |-> "none"]
NoServer == [kind |-> "none"]

Init ==
    /\ pc = "idle"
    /\ request = NoRequest
    /\ response = NoResponse
    /\ calls = <<>>
    /\ storage = EmptyStorage
    /\ provider = NoProvider
    /\ server = NoServer

\* decode_request: an /embed request arrives and is tagged with its path
DecodeEmbed ==
    /\ pc = "idle"
    /\ Len(storage.ids) < MaxStored
    /\ \E req \in EmbedRequests : request' = req
    /\ pc' = "decoded"
    /\ UNCHANGED <<response, calls, storage, provider, server>>

\* predict on an /embed request
PredictEmbed ==
    /\ pc = "decoded"
    /\ request.endpoint = "/embed"
    /\ \E embedOut \in EmbedOutcomes(DictGet(request.statement, PyStr(<<>>)).v),
          addOut \in AddOutcomes :
         LET r == PredictExcept(HandleEmbed(request, embedOut, addOut, storage)) IN
         /\ response' = r.response
         /\ calls' = r.calls
         /\ storage' = r.storage
    /\ pc' = "predicted"
    /\ UNCHANGED <<request, provider, server>>

\* encode_response: the response leaves the service
EncodeResponse ==
    /\ pc = "predicted"
    /\ pc' = "idle"
    /\ request' = NoRequest
    /\ response' = NoResponse
    /\ calls' = <<>>
    /\ UNCHANGED <<storage, provider, server>>

NextEmbed == DecodeEmbed \/ PredictEmbed \/ EncodeResponse

SpecEmbed == Init /\ [][NextEmbed]_vars

\* decode_request: a /search request arrives
DecodeSearch ==
    /\ pc = "idle"
    /\ \E req \in SearchRequests : request' = req
    /\ pc' = "decoded"
    /\ UNCHANGED <<response, calls, storage, provider, server>>

\* predict on a /search request, the collection being a Mock with a set answer
PredictSearch ==
    /\ pc = "decoded"
    /\ request.endpoint = "/search"
    /\ \E embedOut \in EmbedOutcomes(DictGet(request.query, PyStr(<<>>)).v) :
       \E queryOut \in (IF SearchRequestError(request) = "" /\ embedOut.ok
                        THEN QueryOutcomes
                        ELSE {Raised("not called")}) :
         LET r == PredictExcept(HandleSearch(request, embedOut, queryOut, storage)) IN
         /\ response' = r.response
         /\ calls' = r.calls
         /\ storage' = r.storage
    /\ pc' = "predicted"
    /\ UNCHANGED <<request, provider, server>>

NextSearch == DecodeSearch \/ PredictSearch \/ EncodeResponse

SpecSearch == Init /\ [][NextSearch]_vars

\* predict on an /embed request, the collection being a Mock: add records the
\* call and keeps nothing
PredictEmbedMock ==
    /\ pc = "decoded"
    /\ request.endpoint = "/embed"
    /\ \E embedOut \in EmbedOutcomes(DictGet(request.statement, PyStr(<<>>)).v) :
       \E addOut \in (IF EmbedRequestError(request) = "" /\ embedOut.ok
                      THEN AddOutcomes
                      ELSE {Raised("not called")}) :
         LET r == PredictExcept(HandleEmbed(request, embedOut, addOut, storage)) IN
         /\ response' = r.response
         /\ calls' = r.calls
    /\ pc' = "predicted"
    /\ UNCHANGED <<request, storage, provider, server>>

\* the service of the unit tests: any /embed or /search request, one at a time
NextPipeline ==
    DecodeEmbed \/ PredictEmbedMock \/ DecodeSearch \/ PredictSearch \/ EncodeResponse

SpecPipeline == Init /\ [][NextPipeline]_vars

\* decode_request: a /health request arrives
DecodeHealth ==
    /\ pc = "idle"
    /\ \E req \in HealthRequests : request' = req
    /\ pc' = "decoded"
    /\ UNCHANGED <<response, calls, storage, provider, server>>

\* predict on a /health request
PredictHealth ==
    /\ pc = "decoded"
    /\ request.endpoint = "/health"
    /\ \E hbOut \in HeartbeatOutcomes, nameOut \in ProviderNameOutcomes :
       \E dimOut \in (IF nameOut.ok THEN DimensionOutcomes ELSE {Raised("not called")}) :
         LET r == PredictExcept(HandleHealth(hbOut, nameOut, dimOut, storage)) IN
         /\ response' = r.response
         /\ calls' = r.calls
         /\ storage' = r.storage
    /\ pc' = "predicted"
    /\ UNCHANGED <<request, provider, server>>

NextHealth == DecodeHealth \/ PredictHealth \/ EncodeResponse

SpecHealth == Init /\ [][NextHealth]_vars

\* --------------------------------------------- predict: unknown endpoints
\* Requests whose path is none of the three routes ("/" is also what a request
\* with no path is given), carrying the fields of an /embed or /search body.
UnknownRequests ==
    [endpoint : {"/", "/unknown", "/embed/", "/Search", "/healthz"},
     fact_id : FactIdInputs, statement : StatementInputs, query : QueryInputs]

\* the else branch of predict: the not-found signal
\* fault variant: the not-found answer carries the generic failure code
MutUnknownEndpoint500(req, store) ==
    Return([error |-> <<"Unknown endpoint: ", req.endpoint>>, status_code |-> 500],
           <<>>, store)

UnknownEndpoint(req, store) ==
    Return([error |-> <<"Unknown endpoint: ", req.endpoint>>, status_code |-> 404],
           <<>>, store)

\* decode_request: a request for some other path arrives
DecodeUnknown ==
    /\ pc = "idle"
    /\ \E req \in UnknownRequests : request' = req
    /\ pc' = "decoded"
    /\ UNCHANGED <<response, calls, storage, provider, server>>

\* predict on a request for none of the three routes
PredictUnknown ==
    /\ pc = "decoded"
    /\ request.endpoint \notin {"/embed", "/search", "/health"}
    /\ LET r == PredictExcept(UnknownEndpoint(request, storage)) IN
         /\ response' = r.response
         /\ calls' = r.calls
         /\ storage' = r.storage
    /\ pc' = "predicted"
    /\ UNCHANGED <<request, provider, server>>

NextRoute == DecodeUnknown \/ PredictUnknown \/ DecodeHealth \/ PredictHealth \/ EncodeResponse

SpecRoute == Init /\ [][NextRoute]_vars

\* ------------------------------------------- the end-to-end test fixture
\* The in-memory store's query: every stored embedding not filtered out, by
\* distance |query_vec[0] - emb[0]| (list.sort is stable), the first n_results.
\* The filter applies only when a filter is given and some metadata is stored;
\* the metadata of entry i is metadatas[i], or {} past the end of the list.
mock_query(store, query_embeddings, n_results, where) ==
    LET n == Len(store.embeddings)
        metadata(i) == IF i <= Len(store.metadatas) THEN store.metadatas[i] ELSE <<>>
        context_filter == IF where.tag = "dict" THEN where.v.context_id["$in"] ELSE <<>>
        skipped(i) ==
            /\ where.tag = "dict"
            /\ store.metadatas # <<>>
            /\ context_filter # <<>>
            /\ \/ "context_id" \notin DOMAIN metadata(i)
               \/ \A k \in 1..Len(context_filter) : context_filter[k] # metadata(i).context_id
        distance(i) ==
            LET d == query_embeddings[1].x - store.embeddings[i].x
            IN IF d < 0 THEN 0 - d ELSE d
        kept == {i \in 1..n : ~skipped(i)}
        before(i) == {j \in kept : distance(j) < distance(i)
                                     \/ (distance(j) = distance(i) /\ j < i)}
        sorted == [r \in 1..Cardinality(kept) |->
                     CHOOSE i \in kept : Cardinality(before(i)) = r - 1]
        results == SubSeq(sorted, 1, IF n_results < Len(sorted) THEN n_results ELSE Len(sorted))
    IN [tag |-> "dict",
        ids |-> <<[r \in 1..Len(results) |-> store.ids[results[r]]]>>,
        distances |-> <<[r \in 1..Len(results) |-> distance(results[r])]>>,
        documents |-> <<[r \in 1..Len(results) |-> store.documents[results[r]]]>>,
        metadatas |-> <<[r \in 1..Len(results) |-> metadata(results[r])]>>]

\* the requests of the workflow: facts to embed, with and without a context,
\* and searches with and without a context filter
E2ERequests ==
    [endpoint : {"/embed"}, fact_id : {PyStr("f1"), PyStr("f2"), PyStr("f3")},
     statement : {PyStr(<<"a">>), PyStr(<<"a", "a">>)},
     context_id : {Absent, PyStr("c1"), PyStr("c2")}]
    \cup
    [endpoint : {"/search"}, query : {PyStr(<<"a">>), PyStr(<<" ", "a">>)},
     limit : {Absent, PyInt(1), PyInt(2)},
     context_ids : {Absent, PyList(<<"c1">>), PyList(<<"X">>)}]

\* decode_request: a request of the workflow arrives
DecodeE2E ==
    /\ pc = "idle"
    /\ \E req \in E2ERequests :
         /\ req.endpoint = "/embed" => Len(storage.ids) < MaxStored
         /\ request' = req
    /\ pc' = "decoded"
    /\ UNCHANGED <<response, calls, storage, provider, server>>

\* predict, with the fixture's provider and in-memory store behind the handlers
PredictE2E ==
    /\ pc = "decoded"
    /\ request.endpoint \in {"/embed", "/search"}
    /\ LET r == IF request.endpoint = "/embed"
                THEN PredictExcept(HandleEmbed(request,
                                               Returned(mock_embed(request.statement.v)),
                                               Returned("stored"), storage))
                ELSE LET query_embedding == mock_embed(request.query.v) IN
                     PredictExcept(HandleSearch(request, Returned(query_embedding),
                                                Returned(mock_query(storage,
                                                                    <<query_embedding>>,
                                                                    SearchLimit(request),
                                                                    WhereFilter(request))),
                                                storage))
       IN /\ response' = r.response
          /\ calls' = r.calls
          /\ storage' = r.storage
    /\ pc' = "predicted"
    /\ UNCHANGED <<request, provider, server>>

NextE2E == DecodeE2E \/ PredictE2E \/ EncodeResponse

SpecE2E == Init /\ [][NextE2E]_vars

\* ------------------------------------------------------ providers/ollama.py
\* What a provider method did: the value it returned, or the exception that
\* left it, the instance afterwards, and the outbound calls it made.
MethodReturn(val, p, cs) == [value |-> val, exc |-> NoExc, provider |-> p, calls |-> cs]
MethodRaise(e, p, cs) == [value |-> NoResponse, exc |-> e, provider |-> p, calls |-> cs]

\* host.rstrip("/"): a host URL is a sequence of pieces, a "/" being a piece
\* of its own
RECURSIVE RStripSlash(_)
RStripSlash(host) ==
    IF host # <<>> /\ host[Len(host)] = "/" THEN RStripSlash(DropLast(host)) ELSE host

\* OllamaProvider.__init__: the connection probe only logs, whatever it finds
OllamaProvider(host, model) ==
    [kind |-> "ollama", host |-> RStripSlash(host), model |-> model, _dimension |-> PyNone]

\* requests.post(url, json=payload, timeout=30): it raises, or returns a
\* response with a status and a JSON body
PostRaised(type, msg) == [raises |-> type, msg |-> msg]
PostResponse(status, embedding) == [raises |-> "none", status |-> status, embedding |-> embedding]

\* the subclasses of requests.exceptions.RequestException the calls can raise
RequestExceptions ==
    {"requests.exceptions.ConnectionError", "requests.exceptions.Timeout",
     "requests.exceptions.HTTPError"}

PostOutcomes(srv) ==
    {PostRaised("requests.exceptions.ConnectionError", "Connection refused"),
     PostRaised("requests.exceptions.Timeout", "Read timed out"),
     PostRaised("Exception", "Connection refused"),
     PostResponse(500, PyNone),
     PostResponse(200, PyNone),
     PostResponse(200, Vec(0, 0)),
     PostResponse(200, Vec(srv.dimension, 10))}

PostCall(p, text, out) ==
    [fn |-> "requests.post",
     url |-> p.host \o <<"/api/embeddings">>,
     model |-> p.model,
     prompt |-> text,
     raised |-> out.raises # "none",
     embedding |-> IF out.raises = "none" /\ out.status < 400 THEN out.embedding ELSE PyNone]

\* the try block of OllamaProvider.embed
OllamaEmbedTry(p, text, postOut) ==
    LET cs == <<PostCall(p, text, postOut)>> IN
    IF postOut.raises # "none"
    THEN MethodRaise(Exc(postOut.raises, <<postOut.msg>>), p, cs)
    ELSE IF postOut.status >= 400
    THEN MethodRaise(Exc("requests.exceptions.HTTPError", <<"Server Error">>), p, cs)
    ELSE IF postOut.embedding = PyNone \/ postOut.embedding.dim = 0
    THEN MethodRaise(Exc("ValueError", <<"No embedding returned from Ollama">>), p, cs)
    ELSE MethodReturn(postOut.embedding,
                      IF p._dimension = PyNone
                      THEN [p EXCEPT !._dimension = PyInt(postOut.embedding.dim)]
                      ELSE p,
                      cs)

\* the except clauses of OllamaProvider.embed
OllamaEmbedExcept(p, t) ==
    IF t.exc.type \in RequestExceptions
    THEN MethodRaise(Exc("ConnectionError",
                         <<"Failed to connect to Ollama at ", p.host,
                           ". Ensure Ollama is running and the model '", p.model,
                           "' is available.">>),
                     t.provider, t.calls)
    ELSE t

OllamaEmbed(p, text, postOut) == OllamaEmbedExcept(p, OllamaEmbedTry(p, text, postOut))

DefaultOllamaDimension == 768

\* OllamaProvider.get_embedding_dimension
OllamaGetEmbeddingDimension(p, postOut) ==
    IF p._dimension = PyNone
    THEN LET e == OllamaEmbed(p, <<"t", "e", "s", "t">>, postOut) IN
         IF e.exc.type = "none"
         THEN MethodReturn(PyInt(e.value.dim),
                           [e.provider EXCEPT !._dimension = PyInt(e.value.dim)], e.calls)
         ELSE MethodReturn(PyInt(DefaultOllamaDimension),
                           [e.provider EXCEPT !._dimension = PyInt(DefaultOllamaDimension)],
                           e.calls)
    ELSE MethodReturn(p._dimension, p, <<>>)

\* EmbeddingProvider.health_check, on an Ollama instance
OllamaHealthCheck(p, postOut) ==
    LET e == OllamaEmbed(p, <<"h", "e", "a", "l", "t", "h", " ", "c", "h", "e", "c", "k">>,
                         postOut) IN
    IF e.exc.type = "none"
    THEN LET d == OllamaGetEmbeddingDimension(e.provider, postOut) IN
         MethodReturn([status |-> "healthy", provider |-> e.provider.kind,
                       dimension |-> d.value,
                       test_embedding_length |-> e.value.dim],
                      d.provider, e.calls \o d.calls)
    ELSE MethodReturn([status |-> "unhealthy", provider |-> e.provider.kind,
                       error |-> e.exc.msg],
                      e.provider, e.calls)

\* An Ollama instance has been constructed against some embedding endpoint,
\* whose model has one fixed output length.
InitOllama ==
    /\ pc = "idle"
    /\ request = NoRequest
    /\ response = NoResponse
    /\ calls = <<>>
    /\ storage = EmptyStorage
    /\ provider \in {OllamaProvider(h, m) :
                         h \in {<<"http://localhost:11434">>, <<"http://ollama:11434", "/">>},
                         m \in {"nomic-embed-text", "all-minilm"}}
    /\ server \in [kind : {"ollama"}, dimension : {384, 768, 1024}]

\* a method of the instance is called and runs to completion
Called(name, args, r) ==
    /\ pc' = "returned"
    /\ request' = [endpoint |-> name, args |-> args]
    /\ response' = [value |-> r.value, exc |-> r.exc]
    /\ calls' = r.calls
    /\ provider' = r.provider
    /\ UNCHANGED <<storage, server>>

\* the caller has the method's result; the instance is ready for the next call
MethodReturned ==
    /\ pc = "returned"
    /\ pc' = "idle"
    /\ request' = NoRequest
    /\ response' = NoResponse
    /\ calls' = <<>>
    /\ UNCHANGED <<storage, provider, server>>

CallOllamaEmbed ==
    /\ pc = "idle"
    /\ provider.kind = "ollama"
    /\ \E text \in Texts, postOut \in PostOutcomes(server) :
         Called("embed", <<text>>, OllamaEmbed(provider, text, postOut))

CallOllamaGetEmbeddingDimension ==
    /\ pc = "idle"
    /\ provider.kind = "ollama"
    /\ \E postOut \in PostOutcomes(server) :
         Called("get_embedding_dimension", <<>>, OllamaGetEmbeddingDimension(provider, postOut))

CallOllamaHealthCheck ==
    /\ pc = "idle"
    /\ provider.kind = "ollama"
    /\ \E postOut \in PostOutcomes(server) :
         Called("health_check", <<>>, OllamaHealthCheck(provider, postOut))

NextOllama ==
    CallOllamaEmbed \/ CallOllamaGetEmbeddingDimension \/ CallOllamaHealthCheck \/ MethodReturned

SpecOllama == InitOllama /\ [][NextOllama]_vars

\* ------------------------------------------------------ providers/claude.py
MaxReplyTokens == 11

ClaudeDimension == 1024

\* ClaudeProvider.__init__, given a non-empty key
ClaudeProvider(api_key) ==
    [kind |-> "claude", api_key |-> api_key, model |-> "claude-3-5-sonnet-20241022",
     _dimension |-> PyInt(ClaudeDimension)]

\* The model's reply, as response_text.strip().split(",") cuts it: the empty
\* reply is the one empty piece.
Replies ==
    UNION {[1..n -> {" 0.5", "n/a"}] : n \in 1..MaxReplyTokens} \cup {<<"">>, <<"0", "0">>}

\* self.client.messages.create(...): raises, or returns a reply
CreateOutcomes == {Raised("overloaded")} \cup {Returned(r) : r \in Replies}

\* float(x.strip()), in hundredths
ParseFloat(token) ==
    IF token \in {" 0.5", "0.5"} THEN Returned(50)
    ELSE IF token = "0" THEN Returned(0)
    ELSE Raised(<<"could not convert string to float: ", token>>)

\* sum(x**2 for x in xs[lo..hi]), summed by halves
RECURSIVE SumSquares(_, _, _)
SumSquares(xs, lo, hi) ==
    IF lo > hi THEN 0
    ELSE IF lo = hi THEN xs[lo] * xs[lo]
    ELSE LET mid == (lo + hi) \div 2
         IN SumSquares(xs, lo, mid) + SumSquares(xs, mid + 1, hi)

\* ClaudeProvider._expand_features, for a non-empty feature list: the features
\* repeated up to target_dim and cut to it, then divided by the magnitude when
\* it is positive.  The result is kept as the tiled values and the square of
\* the magnitude dividing them (0: not divided).
ExpandFeatures(features, target_dim) ==
    LET expanded == [i \in 1..target_dim |-> features[((i - 1) % Len(features)) + 1]]
    IN [dim |-> target_dim, values |-> expanded,
        magnitude2 |-> SumSquares(expanded, 1, target_dim)]

\* ClaudeProvider.embed: the except clause logs and re-raises
ClaudeEmbed(p, text, createOut) ==
    LET cs == <<[fn |-> "client.messages.create", model |-> p.model, text |-> text,
                 raised |-> ~createOut.ok]>>
    IN IF ~createOut.ok THEN MethodRaise(Exc("APIError", <<createOut.err>>), p, cs)
       ELSE LET parsed == [i \in 1..Len(createOut.val) |-> ParseFloat(createOut.val[i])]
                bad == {i \in 1..Len(parsed) : ~parsed[i].ok}
            IN IF bad # {}
               THEN MethodRaise(Exc("ValueError",
                                    parsed[CHOOSE i \in bad : \A j \in bad : i <= j].err),
                                p, cs)
               ELSE MethodReturn(ExpandFeatures([i \in 1..Len(parsed) |-> parsed[i].val],
                                                p._dimension.v),
                                 p, cs)

InitClaude ==
    /\ pc = "idle"
    /\ request = NoRequest
    /\ response = NoResponse
    /\ calls = <<>>
    /\ storage = EmptyStorage
    /\ provider = ClaudeProvider("test-key")
    /\ server = NoServer

\* embed on the Claude instance; the reply is kept with the call
CallClaudeEmbed ==
    /\ pc = "idle"
    /\ provider.kind = "claude"
    /\ \E text \in Texts, createOut \in CreateOutcomes :
         Called("embed", <<text, createOut>>, ClaudeEmbed(provider, text, createOut))

NextClaude == CallClaudeEmbed \/ MethodReturned

SpecClaude == InitClaude /\ [][NextClaude]_vars

\* ------------------------------ providers/claude.py: _expand_features, by step
MaxFeatures == 3

\* _expand_features(features, target_dim) is called: expanded = [].  The list
\* is kept in the shape of the value returned, its magnitude not yet taken.
CallExpandFeatures ==
    /\ pc = "idle"
    /\ provider.kind = "claude"
    /\ \E n \in 0..MaxFeatures :
       \E features \in [1..n -> {0, 50}], target_dim \in {0, 1, 2, 5, ClaudeDimension} :
         /\ request' = [endpoint |-> "_expand_features", args |-> <<features, target_dim>>]
         /\ response' = [value |-> [dim |-> 0, values |-> <<>>, magnitude2 |-> 0],
                         exc |-> NoExc]
    /\ pc' = "expanding"
    /\ UNCHANGED <<calls, storage, provider, server>>

\* while len(expanded) < target_dim: expanded.extend(features)
ExpandExtend ==
    /\ pc = "expanding"
    /\ response.value.dim < request.args[2]
    /\ LET expanded == response.value.values \o request.args[1]
       IN response' = [response EXCEPT !.value =
                         [dim |-> Len(expanded), values |-> expanded, magnitude2 |-> 0]]
    /\ UNCHANGED <<pc, request, calls, storage, provider, server>>

\* the loop is left: expanded[:target_dim], divided by the magnitude when it
\* is positive
\* fault variant: the tiled list is not cut to the target length
MutExpandFinishNoTruncate ==
    /\ pc = "expanding"
    /\ response.value.dim >= request.args[2]
    /\ LET expanded == response.value.values
       IN response' = [response EXCEPT !.value =
                         [dim |-> Len(expanded), values |-> expanded,
                          magnitude2 |-> SumSquares(expanded, 1, Len(expanded))]]
    /\ pc' = "returned"
    /\ UNCHANGED <<request, calls, storage, provider, server>>

ExpandFinish ==
    /\ pc = "expanding"
    /\ response.value.dim >= request.args[2]
    /\ LET expanded == SubSeq(response.value.values, 1, request.args[2])
       IN response' = [response EXCEPT !.value =
                         [dim |-> Len(expanded), values |-> expanded,
                          magnitude2 |-> SumSquares(expanded, 1, Len(expanded))]]
    /\ pc' = "returned"
    /\ UNCHANGED <<request, calls, storage, provider, server>>

NextExpand == CallExpandFeatures \/ ExpandExtend \/ ExpandFinish \/ MethodReturned

SpecExpand == InitClaude /\ [][NextExpand]_vars

\* the interpreter keeps running the loop and the statements after it
LiveSpecExpand == SpecExpand /\ WF_vars(ExpandExtend) /\ WF_vars(ExpandFinish)

\* embed and _expand_features on one instance
SpecClaudeExpand == InitClaude /\ [][NextClaude \/ NextExpand]_vars

\* ------------------------------------- providers/__init__.py and config.py
\* str.lower() on one character
LowerChar(c) ==
    LET upper == <<"A", "B", "C", "D", "E", "F", "G", "H", "I", "J", "K", "L", "M",
                   "N", "O", "P", "Q", "R", "S", "T", "U", "V", "W", "X", "Y", "Z">>
        lower == <<"a", "b", "c", "d", "e", "f", "g", "h", "i", "j", "k", "l", "m",
                   "n", "o", "p", "q", "r", "s", "t", "u", "v", "w", "x", "y", "z">>
    IN IF \E i \in 1..26 : upper[i] = c
       THEN lower[CHOOSE i \in 1..26 : upper[i] = c]
       ELSE c

\* str.lower()
Lower(s) == [i \in 1..Len(s) |-> LowerChar(s[i])]

\* the four provider tags, as character sequences
ClaudeTag == <<"c", "l", "a", "u", "d", "e">>
OpenAITag == <<"o", "p", "e", "n", "a", "i">>
OllamaTag == <<"o", "l", "l", "a", "m", "a">>
LocalTag == <<"l", "o", "c", "a", "l">>

\* provider_type / EMBEDDING_PROVIDER values: the tags and a name that is no
\* tag, in lower case, in another letter case, and with whitespace around
ProviderTypeInputs ==
    {ClaudeTag, OpenAITag, OllamaTag, LocalTag, <<"c", "o", "h", "e", "r", "e">>,
     <<"C", "l", "a", "u", "d", "e">>, <<"O", "p", "e", "n", "A", "I">>,
     <<"O", "L", "L", "A", "M", "A">>, <<"L", "o", "c", "a", "l">>,
     <<" ", "c", "l", "a", "u", "d", "e">>, <<"o", "p", "e", "n", "a", "i", " ">>,
     <<" ", "o", "l", "l", "a", "m", "a", " ">>, <<" ", "L", "O", "C", "A", "L", " ">>,
     <<" ", "c", "o", "h", "e", "r", "e">>}

\* `not api_key`
\* fault variant: `api_key is None`, an empty key passing
MutKeyMissingNoneOnly(api_key) == api_key = PyNone

KeyMissing(api_key) == ~(api_key.tag = "str" /\ api_key.v # "")

\* OpenAIProvider.__init__, given a non-empty key
OpenAIProvider(api_key, model) ==
    [kind |-> "openai", api_key |-> api_key, model |-> model,
     _dimension |-> PyInt(IF model = "text-embedding-3-large" THEN 3072 ELSE 1536)]

\* SentenceTransformer(model_name): raises, or loads a model of some dimension
LoadOutcomes == {Raised("model not found"), Returned(384)}

\* LocalProvider.__init__, the model loaded
LocalProvider(model_name, dimension) ==
    [kind |-> "local", model_name |-> model_name, _dimension |-> PyInt(dimension)]

\* a constructor ran and the factory returns its instance
Constructed(p) == MethodReturn(p, p, <<[fn |-> p.kind, raised |-> FALSE]>>)

\* create_provider(provider_type, api_key, host, model_name)
CreateProvider(provider_type, api_key, host, model_name, loadOut) ==
    LET pt == Strip(Lower(provider_type)) IN
    IF pt = ClaudeTag
    THEN IF KeyMissing(api_key)
         THEN MethodRaise(Exc("ValueError",
                              <<"API key is required for Claude provider. ",
                                "Set ANTHROPIC_API_KEY in environment or .env file.">>),
                          NoProvider, <<>>)
         ELSE Constructed(ClaudeProvider(api_key.v))
    ELSE IF pt = OpenAITag
    THEN IF KeyMissing(api_key)
         THEN MethodRaise(Exc("ValueError",
                              <<"API key is required for OpenAI provider. ",
                                "Set OPENAI_API_KEY in environment or .env file.">>),
                          NoProvider, <<>>)
         ELSE Constructed(OpenAIProvider(api_key.v,
                                         IF model_name.tag = "str" /\ model_name.v # ""
                                         THEN model_name.v ELSE "text-embedding-3-small"))
    ELSE IF pt = OllamaTag
    THEN Constructed(OllamaProvider(IF host.tag = "str" /\ host.v # <<>>
                                    THEN host.v ELSE <<"http://localhost:11434">>,
                                    IF model_name.tag = "str" /\ model_name.v # ""
                                    THEN model_name.v ELSE "nomic-embed-text"))
    ELSE IF pt = LocalTag
    THEN IF loadOut.ok
         THEN Constructed(LocalProvider(IF model_name.tag = "str" /\ model_name.v # ""
                                        THEN model_name.v ELSE "all-MiniLM-L6-v2",
                                        loadOut.val))
         ELSE MethodRaise(Exc("OSError", <<loadOut.err>>), NoProvider,
                          <<[fn |-> "local", raised |-> TRUE]>>)
    ELSE MethodRaise(Exc("ValueError",
                         <<"Unknown embedding provider: ", pt,
                           ". Valid options: claude, openai, ollama, local">>),
                     NoProvider, <<>>)

\* the settings Config reads from the environment
Configs ==
    [EMBEDDING_PROVIDER : ProviderTypeInputs,
     ANTHROPIC_API_KEY : {PyNone, PyStr("sk-ant")},
     OPENAI_API_KEY : {PyNone, PyStr("sk-oai")},
     OLLAMA_HOST : {PyStr(<<>>), PyStr(<<"http://ollama:11434", "/">>)},
     OLLAMA_MODEL : {PyStr("all-minilm")},
     LOCAL_MODEL_NAME : {PyStr("all-mpnet-base-v2")}]

\* create_provider_from_config(config)
CreateProviderFromConfig(config, loadOut) ==
    LET provider_type == config.EMBEDDING_PROVIDER IN
    CreateProvider(provider_type,
                   IF provider_type = ClaudeTag THEN config.ANTHROPIC_API_KEY
                   ELSE IF provider_type = OpenAITag THEN config.OPENAI_API_KEY
                   ELSE PyNone,
                   IF provider_type = OllamaTag THEN config.OLLAMA_HOST ELSE PyNone,
                   IF provider_type = OllamaTag THEN config.OLLAMA_MODEL
                   ELSE IF provider_type = LocalTag THEN config.LOCAL_MODEL_NAME
                   ELSE PyNone,
                   loadOut)

\* Config.validate(): returns None, or raises ValueError
ConfigValidate(config, p) ==
    LET name == Lower(config.EMBEDDING_PROVIDER)
        required(setting, variant) ==
            MethodRaise(Exc("ValueError",
                            <<setting, " is required when using ", variant, " provider. ",
                              "Set it in environment variables or .env file.">>), p, <<>>)
    IN IF name = ClaudeTag /\ KeyMissing(config.ANTHROPIC_API_KEY)
       THEN required("ANTHROPIC_API_KEY", "Claude")
       ELSE IF name = OpenAITag /\ KeyMissing(config.OPENAI_API_KEY)
       THEN required("OPENAI_API_KEY", "OpenAI")
       ELSE IF name = OllamaTag /\ config.OLLAMA_HOST.v = <<>>
       THEN required("OLLAMA_HOST", "Ollama")
       ELSE IF name \in {ClaudeTag, OpenAITag, OllamaTag, LocalTag}
       THEN MethodReturn(PyNone, p, <<>>)
       ELSE MethodRaise(Exc("ValueError",
                            <<"Unknown embedding provider: ", name,
                              ". Valid options: claude, openai, ollama, local">>), p, <<>>)

CallCreateProvider ==
    /\ pc = "idle"
    /\ \E provider_type \in ProviderTypeInputs,
          api_key \in {PyNone, PyStr(""), PyStr("sk-test")},
          host \in {PyNone, PyStr(<<>>), PyStr(<<"http://gpu:11434", "/">>)},
          model_name \in {PyNone, PyStr("all-minilm")},
          loadOut \in LoadOutcomes :
         Called("create_provider", <<provider_type, api_key, host, model_name, loadOut>>,
                CreateProvider(provider_type, api_key, host, model_name, loadOut))

CallCreateProviderFromConfig ==
    /\ pc = "idle"
    /\ \E config \in Configs, loadOut \in LoadOutcomes :
         Called("create_provider_from_config", <<config, loadOut>>,
                CreateProviderFromConfig(config, loadOut))

CallConfigValidate ==
    /\ pc = "idle"
    /\ \E config \in Configs :
         Called("Config.validate", <<config>>, ConfigValidate(config, provider))

NextFactory ==
    CallCreateProvider \/ CallCreateProviderFromConfig \/ CallConfigValidate \/ MethodReturned

SpecFactory == Init /\ [][NextFactory]_vars

\* ------------------------------------------------------ providers/openai.py
MaxBatch == 3

\* the vector the embeddings endpoint computes for a text
ApiEmbedding(p, text) == Vec(p._dimension.v, StrHash(text) % 100)

\* self.client.embeddings.create(model=..., input=...): raises, or returns
\* response.data with one item per input, each carrying the index of its
\* input, the items in any order
CreateEmbeddingsOutcomes(p, inputs) ==
    LET n == Len(inputs)
        orders == {o \in [1..n -> 1..n] : \A i, j \in 1..n : o[i] = o[j] => i = j}
    IN {Raised("rate limit exceeded")}
       \cup {Returned([k \in 1..n |->
                         [index |-> o[k] - 1, embedding |-> ApiEmbedding(p, inputs[o[k]])]])
             : o \in orders}

\* sorted(response.data, key=lambda x: x.index): a stable sort
\* fault variant: the items are taken in the order the response lists them
MutSortedByIndexAsReceived(data) == data

SortedByIndex(data) ==
    LET n == Len(data)
        before(j) == {i \in 1..n : \/ data[i].index < data[j].index
                                   \/ data[i].index = data[j].index /\ i < j}
    IN [k \in 1..n |-> data[CHOOSE j \in 1..n : Cardinality(before(j)) = k - 1]]

CreateEmbeddingsCall(p, input, out) ==
    [fn |-> "client.embeddings.create", model |-> p.model, input |-> input,
     raised |-> ~out.ok]

\* OpenAIProvider.embed: the except clause logs and re-raises
OpenAIEmbed(p, text, out) ==
    LET cs == <<CreateEmbeddingsCall(p, PyStr(text), out)>> IN
    IF ~out.ok THEN MethodRaise(Exc("APIError", <<out.err>>), p, cs)
    ELSE MethodReturn(out.val[1].embedding, p, cs)

\* EmbeddingProvider.embed_batch: [self.embed(text) for text in texts], the
\* first n texts; an embed that raises ends the comprehension
RECURSIVE EmbedBatch(_, _, _, _)
EmbedBatch(p, texts, outs, n) ==
    IF n = 0 THEN MethodReturn(<<>>, p, <<>>)
    ELSE LET done == EmbedBatch(p, texts, outs, n - 1) IN
         IF done.exc.type # "none" THEN done
         ELSE LET e == OpenAIEmbed(done.provider, texts[n], outs[n]) IN
              IF e.exc.type # "none"
              THEN MethodRaise(e.exc, e.provider, done.calls \o e.calls)
              ELSE MethodReturn(Append(done.value, e.value), e.provider,
                                done.calls \o e.calls)

\* OpenAIProvider.embed_batch: the batch call, and on any exception the
\* sequential default
\* fault variant: the except clause re-raises the batch failure
MutOpenAIEmbedBatchReraise(p, texts, batchOut, outs) ==
    LET cs == <<CreateEmbeddingsCall(p, PyList(texts), batchOut)>> IN
    IF batchOut.ok
    THEN LET sorted == SortedByIndex(batchOut.val) IN
         MethodReturn([k \in 1..Len(sorted) |-> sorted[k].embedding], p, cs)
    ELSE MethodRaise(Exc("APIError", <<batchOut.err>>), p, cs)

OpenAIEmbedBatch(p, texts, batchOut, outs) ==
    LET cs == <<CreateEmbeddingsCall(p, PyList(texts), batchOut)>> IN
    IF batchOut.ok
    THEN LET sorted == SortedByIndex(batchOut.val) IN
         MethodReturn([k \in 1..Len(sorted) |-> sorted[k].embedding], p, cs)
    ELSE LET seq == EmbedBatch(p, texts, outs, Len(texts)) IN
         [seq EXCEPT !.calls = cs \o @]

InitOpenAI ==
    /\ pc = "idle"
    /\ request = NoRequest
    /\ response = NoResponse
    /\ calls = <<>>
    /\ storage = EmptyStorage
    /\ provider \in {OpenAIProvider("test-key", m) :
                         m \in {"text-embedding-3-small", "text-embedding-3-large"}}
    /\ server = NoServer

\* embed_batch on the OpenAI instance; the per-text outcomes are drawn only
\* when the batch call raised
CallOpenAIEmbedBatch ==
    /\ pc = "idle"
    /\ provider.kind = "openai"
    /\ \E n \in 0..MaxBatch :
       \E texts \in [1..n -> {<<"a">>, <<" ">>, <<"a", "a">>}] :
       \E batchOut \in CreateEmbeddingsOutcomes(provider, texts) :
       \E oks \in (IF batchOut.ok THEN {[i \in 1..n |-> TRUE]} ELSE [1..n -> BOOLEAN]) :
         LET outs == [i \in 1..n |->
                        IF oks[i]
                        THEN Returned(<<[index |-> 0,
                                         embedding |-> ApiEmbedding(provider, texts[i])]>>)
                        ELSE Raised("rate limit exceeded")]
         IN Called("embed_batch", <<texts, batchOut, oks>>,
                   OpenAIEmbedBatch(provider, texts, batchOut, outs))

NextOpenAI == CallOpenAIEmbedBatch \/ MethodReturned

SpecOpenAI == InitOpenAI /\ [][NextOpenAI]_vars

\* ------------------------- providers/ollama.py: one instance, two threads
\* Two request threads share one Ollama instance.  pc, request and response
\* are kept per thread; a step is what a thread does between two points at
\* which the interpreter may switch threads: the blocking POST, the test of
\* self._dimension, and each assignment to it.
Threads == {1, 2}

InitRace ==
    /\ pc = [t \in Threads |-> "idle"]
    /\ request = [t \in Threads |-> NoRequest]
    /\ response = [t \in Threads |-> NoResponse]
    /\ calls = <<>>
    /\ storage = EmptyStorage
    /\ provider = OllamaProvider(<<"http://localhost:11434">>, "nomic-embed-text")
    /\ server \in [kind : {"ollama"}, dimension : {384, 768, 1024}]

\* a thread calls embed, or get_embedding_dimension, which returns the cell
\* when it is set and otherwise goes on to embed("test")
RaceCall(t) ==
    /\ pc[t] = "idle"
    /\ \E m \in {"embed", "get_embedding_dimension"} :
         /\ request' = [request EXCEPT ![t] = [endpoint |-> m, embedding |-> PyNone]]
         /\ pc' = [pc EXCEPT ![t] =
                     IF m = "get_embedding_dimension" /\ provider._dimension # PyNone
                     THEN "return" ELSE "post"]
    /\ response' = [response EXCEPT ![t] = NoResponse]
    /\ UNCHANGED <<calls, storage, provider, server>>

\* embed is over in thread t: it returns to its caller, which is the request
\* thread itself or get_embedding_dimension
EmbedDone(t) ==
    IF request[t].endpoint = "embed"
    THEN /\ pc' = [pc EXCEPT ![t] = "idle"]
         /\ response' = [response EXCEPT ![t] =
                           [value |-> request[t].embedding, exc |-> NoExc]]
         /\ request' = [request EXCEPT ![t] = NoRequest]
    ELSE /\ pc' = [pc EXCEPT ![t] = "write_len"]
         /\ UNCHANGED <<request, response>>

\* embed up to the embedding it extracts, or the exception it raises
RacePost(t) ==
    /\ pc[t] = "post"
    /\ \E postOut \in PostOutcomes(server) :
         LET e == OllamaEmbed(provider, <<"t", "e", "s", "t">>, postOut) IN
         IF e.exc = NoExc
         THEN /\ request' = [request EXCEPT ![t].embedding = e.value]
              /\ pc' = [pc EXCEPT ![t] = "check"]
              /\ UNCHANGED response
         ELSE IF request[t].endpoint = "embed"
         THEN /\ pc' = [pc EXCEPT ![t] = "idle"]
              /\ response' = [response EXCEPT ![t] = [value |-> NoResponse, exc |-> e.exc]]
              /\ request' = [request EXCEPT ![t] = NoRequest]
         ELSE /\ pc' = [pc EXCEPT ![t] = "write_default"]
              /\ UNCHANGED <<request, response>>
    /\ UNCHANGED <<calls, storage, provider, server>>

\* embed: if self._dimension is None
RaceCheck(t) ==
    /\ pc[t] = "check"
    /\ IF provider._dimension = PyNone
       THEN pc' = [pc EXCEPT ![t] = "write"] /\ UNCHANGED <<request, response>>
       ELSE EmbedDone(t)
    /\ UNCHANGED <<calls, storage, provider, server>>

\* embed: self._dimension = len(embedding)
RaceWrite(t) ==
    /\ pc[t] = "write"
    /\ provider' = [provider EXCEPT !._dimension = PyInt(request[t].embedding.dim)]
    /\ EmbedDone(t)
    /\ UNCHANGED <<calls, storage, server>>

\* get_embedding_dimension: self._dimension = len(test_embedding), or = 768
\* in the except clause
RaceWriteDimension(t) ==
    /\ pc[t] \in {"write_len", "write_default"}
    /\ provider' = [provider EXCEPT !._dimension =
                      IF pc[t] = "write_len" THEN PyInt(request[t].embedding.dim)
                      ELSE PyInt(DefaultOllamaDimension)]
    /\ pc' = [pc EXCEPT ![t] = "return"]
    /\ UNCHANGED <<request, response, calls, storage, server>>

\* get_embedding_dimension: return self._dimension
RaceReturn(t) ==
    /\ pc[t] = "return"
    /\ pc' = [pc EXCEPT ![t] = "idle"]
    /\ response' = [response EXCEPT ![t] = [value |-> provider._dimension, exc |-> NoExc]]
    /\ request' = [request EXCEPT ![t] = NoRequest]
    /\ UNCHANGED <<calls, storage, provider, server>>

NextRace ==
    \E t \in Threads :
        \/ RaceCall(t)
        \/ RacePost(t)
        \/ RaceCheck(t)
        \/ RaceWrite(t)
        \/ RaceWriteDimension(t)
        \/ RaceReturn(t)

SpecRace == InitRace /\ [][NextRace]_vars

\* ------------------------------------ rag_service.py: verify_ollama_health
\* A model name is a sequence of pieces, the ":" before a tag being a piece
\* of its own.  name.split(":")[0]: the pieces before the first ":"
SplitColonHead(name) ==
    LET colons == {i \in 1..Len(name) : name[i] = ":"} IN
    IF colons = {} THEN name
    ELSE SubSeq(name, 1, (CHOOSE i \in colons : \A j \in colons : i <= j) - 1)

\* requests.get(f"{host}/api/tags", timeout=5): it raises, or returns a
\* response with a status and the names of the endpoint's models
TagsOutcomes(srv) ==
    {PostRaised("requests.exceptions.ConnectionError", "Connection refused"),
     PostRaised("requests.exceptions.Timeout", "Read timed out"),
     [raises |-> "none", status |-> 500, models |-> <<>>],
     [raises |-> "none", status |-> 200, models |-> srv.models]}

\* verify_ollama_health(provider): every except clause returns False
VerifyOllamaHealth(p, getOut, postOut) ==
    IF p.kind # "ollama" THEN MethodReturn(TRUE, p, <<>>)
    ELSE LET get == [fn |-> "requests.get", url |-> p.host \o <<"/api/tags">>,
                     raised |-> getOut.raises # "none"]
         IN IF getOut.raises # "none" \/ getOut.status >= 400
            THEN MethodReturn(FALSE, p, <<get>>)
            ELSE LET available_models ==
                         {SplitColonHead(getOut.models[i]) : i \in 1..Len(getOut.models)}
                 IN IF p.model \notin available_models
                    THEN MethodReturn(FALSE, p, <<get>>)
                    ELSE LET e == OllamaEmbed(p, <<"health check test">>, postOut) IN
                         MethodReturn(e.exc = NoExc, e.provider, <<get>> \o e.calls)

\* main has validated the configuration and created the provider; the
\* endpoint lists some models and serves vectors of one length
InitVerify ==
    /\ pc = "idle"
    /\ request = NoRequest
    /\ response = NoResponse
    /\ calls = <<>>
    /\ storage = EmptyStorage
    /\ provider \in {OllamaProvider(<<"http://localhost:11434">>, m) :
                         m \in {<<"nomic-embed-text">>,
                                <<"nomic-embed-text", ":", "latest">>,
                                <<"all-minilm">>}}
    /\ \E n \in 0..2 :
         server \in [kind : {"ollama"}, dimension : {384, 768},
                     models : [1..n -> {<<"nomic-embed-text", ":", "latest">>,
                                        <<"nomic-embed-text", ":", "v1.5">>,
                                        <<"all-minilm">>}]]

\* main: verify_ollama_health(provider); the POST outcome is drawn only when
\* the embedding test is reached
CallVerifyOllamaHealth ==
    /\ pc = "idle"
    /\ provider.kind = "ollama"
    /\ \E getOut \in TagsOutcomes(server) :
         LET reached ==
                 Len(VerifyOllamaHealth(provider, getOut, PostResponse(200, PyNone)).calls) = 2
         IN \E postOut \in (IF reached THEN PostOutcomes(server)
                            ELSE {PostResponse(200, PyNone)}) :
              Called("verify_ollama_health", <<getOut, postOut>>,
                     VerifyOllamaHealth(provider, getOut, postOut))

\* main: sys.exit(1) when the check returned False, else the server starts
MainAfterVerify ==
    /\ pc = "returned"
    /\ request.endpoint = "verify_ollama_health"
    /\ pc' = IF response.value THEN "serving" ELSE "exited"
    /\ response' = [value |-> response.value, exc |-> NoExc,
                    exit_status |-> IF response.value THEN PyNone ELSE PyInt(1)]
    /\ UNCHANGED <<request, calls, storage, provider, server>>

NextVerify == CallVerifyOllamaHealth \/ MainAfterVerify

SpecVerify == InitVerify /\ [][NextVerify]_vars

\* ================================================================== claims
AtEmbedResponse == pc = "predicted" /\ request.endpoint = "/embed"

EmbedStep == pc = "decoded" /\ pc' = "predicted" /\ request.endpoint = "/embed"

BlankStatement(req) == req.statement.tag = "str" /\ IsBlank(req.statement.v)

InvalidEmbedInput(req) ==
    req.fact_id.tag # "str" \/ req.statement.tag # "str" \/ BlankStatement(req)

SomeCallRaised == \E i \in 1..Len(calls) : calls[i].raised

CallsTo(fn) == {i \in 1..Len(calls) : calls[i].fn = fn}

\* C1: an /embed request whose statement is empty or whitespace-only is
\* answered with success = false, calls neither provider.embed nor the
\* store's insert, and leaves the store contents as they were.
C1_BlankStatementRejected ==
    [][(EmbedStep /\ BlankStatement(request))
         => /\ "success" \in DOMAIN response'
            /\ response'.success = FALSE
            /\ \A i \in 1..Len(calls') :
                 calls'[i].fn \notin {"provider.embed", "collection.add"}
            /\ storage' = storage]_vars

C1_Witness ==
    /\ AtEmbedResponse
    /\ request.fact_id.tag = "str"
    /\ BlankStatement(request)
    /\ request.statement.v # <<>>
    /\ response.success = FALSE
    /\ storage.ids # <<>>

\* C2: every /embed request, valid or not and whichever collaborator raises,
\* is answered with the dict {success, fact_id, message}: success is false on
\* any failure, fact_id is the request's fact_id or "unknown" when the key is
\* missing, and the status_code 500 shape is never returned.
C2_EmbedAlwaysInlineShape ==
    AtEmbedResponse =>
        /\ DOMAIN response = {"success", "fact_id", "message"}
        /\ response.success \in BOOLEAN
        /\ (InvalidEmbedInput(request) \/ SomeCallRaised) => response.success = FALSE
        /\ response.fact_id =
             (IF request.fact_id.tag = "absent" THEN PyStr("unknown") ELSE request.fact_id)

C2_Witness ==
    /\ AtEmbedResponse
    /\ ~InvalidEmbedInput(request)
    /\ Len(calls) = 2
    /\ calls[2].fn = "collection.add"
    /\ calls[2].raised
    /\ response.success = FALSE
    /\ response.fact_id = request.fact_id

\* C3: embedding is an upsert by id: after a successful /embed the store holds
\* exactly one record with the request's fact_id, and that record carries the
\* statement, embedding and metadata of this (the last successful) embed.
C3_UpsertLastWriteWins ==
    [][(EmbedStep /\ "success" \in DOMAIN response' /\ response'.success = TRUE)
         => LET mine == {i \in 1..Len(storage'.ids) :
                           storage'.ids[i] = request.fact_id.v}
            IN /\ Cardinality(mine) = 1
               /\ \A i \in mine :
                    /\ storage'.documents[i] = request.statement.v
                    /\ storage'.embeddings[i] = calls'[2].embeddings[1]]_vars

\* C4 as stated: the store receives no metadata exactly when the request gave
\* no context_id, and otherwise receives exactly {context_id: c}.
C4_MetadataAbsentIffNoContext ==
    AtEmbedResponse =>
        \A i \in CallsTo("collection.add") :
            \/ /\ request.context_id.tag \in {"absent", "none"}
               /\ calls[i].metadatas = PyNone
            \/ /\ request.context_id.tag = "str"
               /\ calls[i].metadatas = PyList(<<[context_id |-> request.context_id.v]>>)

\* C4 (amended): the store receives no metadata when the request gave no
\* context_id or gave the empty string, and exactly {context_id: c} for a
\* non-empty context_id c; it never receives an empty metadata object nor a
\* metadata object whose context_id is null.
C4_MetadataNoneOrContext ==
    AtEmbedResponse =>
        \A i \in CallsTo("collection.add") :
            /\ \/ /\ \/ request.context_id.tag \in {"absent", "none"}
                     \/ request.context_id = PyStr("")
                  /\ calls[i].metadatas = PyNone
               \/ /\ request.context_id.tag = "str"
                  /\ request.context_id.v # ""
                  /\ calls[i].metadatas = PyList(<<[context_id |-> request.context_id.v]>>)
            /\ calls[i].metadatas.tag = "list" =>
                 \A k \in 1..Len(calls[i].metadatas.v) :
                     DOMAIN calls[i].metadatas.v[k] = {"context_id"}

C4_Witness ==
    /\ AtEmbedResponse
    /\ request.context_id = PyStr("")
    /\ \E i \in CallsTo("collection.add") : calls[i].metadatas = PyNone
    /\ response.success = TRUE

AtSearchResponse == pc = "predicted" /\ request.endpoint = "/search"

BlankQuery(req) == req.query.tag = "str" /\ IsBlank(req.query.v)

\* the answer the store gave to this request's query, when it gave one
StoreAnswered ==
    /\ AtSearchResponse
    /\ CallsTo("collection.query") # {}
    /\ \A i \in CallsTo("collection.query") : ~calls[i].raised

StoreAnswer == calls[CHOOSE i \in CallsTo("collection.query") : TRUE].returned

\* the store returned parallel arrays of equal length
StoreListed ==
    /\ StoreAnswered
    /\ StoreAnswer.tag = "dict"
    /\ StoreAnswer.ids # <<>>
    /\ "error" \notin DOMAIN response

\* C5: a /search request whose query is empty or whitespace-only is answered
\* inline with results = [] and an error field, and calls neither
\* provider.embed nor the store's query.
C5_BlankQueryRejected ==
    (AtSearchResponse /\ BlankQuery(request)) =>
        /\ DOMAIN response = {"results", "error"}
        /\ response.results = <<>>
        /\ \A i \in 1..Len(calls) :
             calls[i].fn \notin {"provider.embed", "collection.query"}

C5_Witness ==
    /\ AtSearchResponse
    /\ BlankQuery(request)
    /\ request.query.v # <<>>
    /\ request.limit.tag = "int"
    /\ response.results = <<>>
    /\ "error" \in DOMAIN response

\* C6: the filter a valid /search request passes to the store's query is
\* exactly {context_id: {$in: context_ids}}, elements and order kept, when
\* context_ids is a non-empty list, and is None when context_ids is absent,
\* None or an empty list.
C6_WhereFilterFromContextIds ==
    AtSearchResponse =>
        \A i \in CallsTo("collection.query") :
            IF request.context_ids.tag = "list" /\ Len(request.context_ids.v) > 0
            THEN /\ calls[i].where.tag = "dict"
                 /\ DOMAIN calls[i].where.v = {"context_id"}
                 /\ DOMAIN calls[i].where.v.context_id = {"$in"}
                 /\ calls[i].where.v.context_id["$in"] = request.context_ids.v
            ELSE calls[i].where = PyNone

C6_Witness ==
    /\ AtSearchResponse
    /\ request.context_ids = PyList(<<"Y", "X">>)
    /\ \E i \in CallsTo("collection.query") :
         /\ calls[i].where.tag = "dict"
         /\ calls[i].where.v.context_id["$in"] = <<"Y", "X">>

\* C7 as stated: the reported score is strictly decreasing in the distance,
\* and the score reported for distance 0 is exactly 1.0.
C7_ScoreStrictlyDecreasing ==
    StoreListed =>
        LET d == StoreAnswer.distances[1]
            r == response.results
        IN /\ \A i, j \in 1..Len(r) : d[i] < d[j] => r[i].score > r[j].score
           /\ \A i \in 1..Len(r) : d[i] = 0 => r[i].score = ScoreScale

\* C7 (amended): the reported score never increases with the distance (two
\* distances may report the same rounded score), and the score reported for
\* distance 0 is exactly 1.0.
C7_ScoreNonIncreasing ==
    StoreListed =>
        LET d == StoreAnswer.distances[1]
            r == response.results
        IN /\ \A i, j \in 1..Len(r) : d[i] < d[j] => r[i].score >= r[j].score
           /\ \A i \in 1..Len(r) : d[i] = 0 => r[i].score = ScoreScale

C7_Witness ==
    /\ StoreListed
    /\ Len(response.results) = 2
    /\ StoreAnswer.distances[1] = <<1200, 1201>>
    /\ response.results[1].score = response.results[2].score

\* C8 as stated: every result's score lies in (0, 1]: strictly positive, at
\* most 1.
C8_ScoreInHalfOpenUnitInterval ==
    AtSearchResponse =>
        \A i \in 1..Len(response.results) :
            /\ response.results[i].score > 0
            /\ response.results[i].score <= ScoreScale

\* C8 (amended): every result's score lies in [0, 1]; it is 0.0 when
\* 1 / (1 + distance) rounds to zero at 4 decimal places.
C8_ScoreInUnitInterval ==
    AtSearchResponse =>
        \A i \in 1..Len(response.results) :
            /\ response.results[i].score >= 0
            /\ response.results[i].score <= ScoreScale

C8_Witness ==
    /\ StoreListed
    /\ Len(response.results) = 2
    /\ StoreAnswer.distances[1] = <<0, 2000000>>
    /\ response.results[1].score = ScoreScale
    /\ response.results[2].score = 0

\* C9: a successful /search returns one result per id the store returned, in
\* the store's order: results[i] is (ids[i], the rounded score of
\* distances[i], documents[i]); an answer listing nothing gives no results.
C9_ResultsInStoreOrder ==
    (StoreAnswered /\ "error" \notin DOMAIN response) =>
        IF StoreAnswer.tag = "dict" /\ StoreAnswer.ids # <<>>
        THEN /\ Len(response.results) = Len(StoreAnswer.ids[1])
             /\ \A i \in 1..Len(response.results) :
                  response.results[i] =
                      [fact_id |-> StoreAnswer.ids[1][i],
                       score |-> RoundHalfEven(ScoreScale * DistScale,
                                               DistScale + StoreAnswer.distances[1][i]),
                       statement |-> StoreAnswer.documents[1][i]]
        ELSE response.results = <<>>

C9_Witness ==
    /\ StoreListed
    /\ StoreAnswer.ids[1] = <<"f2", "f1">>
    /\ StoreAnswer.distances[1] = <<30, 10>>
    /\ Len(response.results) = 2
    /\ response.results[1].fact_id = "f2"
    /\ response.results[1].score < response.results[2].score

AtHealthResponse == pc = "predicted" /\ request.endpoint = "/health"

CallTo(fn) == calls[CHOOSE i \in CallsTo(fn) : TRUE]

\* both provider reads of this /health request were made and returned
ProviderInfoRead ==
    /\ AtHealthResponse
    /\ CallsTo("provider.get_provider_name") # {}
    /\ CallsTo("provider.get_embedding_dimension") # {}
    /\ ~CallTo("provider.get_provider_name").raised
    /\ ~CallTo("provider.get_embedding_dimension").raised

\* C10: when the provider's name and dimension are read successfully, /health
\* reports "healthy" exactly when the store's liveness probe succeeded (store
\* status "connected"); when the probe raises it reports "degraded" with store
\* status "disconnected: <message>", and still reports the provider's name and
\* dimension.
C10_HealthyIffStoreConnected ==
    ProviderInfoRead =>
        LET hb == CallTo("chroma_client.heartbeat") IN
        /\ response.status = "healthy" <=> ~hb.raised
        /\ response.status = "healthy" <=> response.chromadb = <<"connected">>
        /\ hb.raised =>
             /\ response.status = "degraded"
             /\ response.chromadb = <<"disconnected: ", hb.err>>
        /\ response.provider = CallTo("provider.get_provider_name").returned
        /\ response.embedding_dimension =
             CallTo("provider.get_embedding_dimension").returned

C10_Witness ==
    /\ ProviderInfoRead
    /\ CallTo("chroma_client.heartbeat").raised
    /\ response.status = "degraded"
    /\ response.chromadb = <<"disconnected: ", "Connection lost">>
    /\ response.provider = "local"
    /\ response.embedding_dimension = 384

\* a provider read of this /health request (name or dimension) raised
ProviderInfoFailed ==
    \E i \in 1..Len(calls) :
        /\ calls[i].fn \in {"provider.get_provider_name", "provider.get_embedding_dimension"}
        /\ calls[i].raised

\* C11: /health answers status "unhealthy" exactly when reading the provider's
\* name or dimension raised, and then with provider "unknown"; a failed store
\* liveness probe with both provider reads succeeding never gives "unhealthy";
\* and /health always answers with a status, never the status_code 500 shape.
C11_UnhealthyOnlyOnProviderInfoFailure ==
    AtHealthResponse =>
        /\ "status" \in DOMAIN response
        /\ "status_code" \notin DOMAIN response
        /\ response.status = "unhealthy" <=> ProviderInfoFailed
        /\ response.status = "unhealthy" =>
             /\ response.provider = "unknown"
             /\ response.chromadb = <<"unknown">>
             /\ "error" \in DOMAIN response
        /\ (CallTo("chroma_client.heartbeat").raised /\ ~ProviderInfoFailed) =>
             response.status = "degraded"

C11_Witness ==
    /\ AtHealthResponse
    /\ ~CallTo("chroma_client.heartbeat").raised
    /\ CallsTo("provider.get_embedding_dimension") # {}
    /\ CallTo("provider.get_embedding_dimension").raised
    /\ response.status = "unhealthy"
    /\ response.provider = "unknown"
    /\ response.error = "provider dimension failure"

\* the last call on the instance was a successful embed
EmbedReturned == pc = "returned" /\ request.endpoint = "embed" /\ response.exc.type = "none"

\* C12: every vector a successful embed returns has the length that
\* get_embedding_dimension() reports for the instance, after any sequence of
\* embed, get_embedding_dimension and health_check calls, calls made while the
\* endpoint was unreachable included.
C12_EmbedLengthIsDimension ==
    (provider.kind = "ollama" /\ EmbedReturned) =>
        /\ provider._dimension # PyNone
        /\ response.value.dim = provider._dimension.v

\* C13: the Ollama instance's dimension is unset at construction, is set only
\* to the length of a vector a successful embedding call returned, and once
\* set never changes.
C13_DimensionSetOnlyFromEmbedding ==
    /\ provider._dimension = PyNone
    /\ [][(provider.kind = "ollama" /\ provider'._dimension # provider._dimension) =>
             /\ provider._dimension = PyNone
             /\ \E i \in 1..Len(calls') :
                  /\ calls'[i].fn = "requests.post"
                  /\ calls'[i].embedding # PyNone
                  /\ provider'._dimension = PyInt(calls'[i].embedding.dim)]_vars

\* C14: when the POST of embed raises (any exception, a timeout included),
\* embed raises a ConnectionError whose message begins "Failed to connect to
\* Ollama" and names the host and the model, and the memoized dimension is
\* left as it was.
C14_PostFailureIsConnectionError ==
    [][(provider.kind = "ollama" /\ pc' = "returned" /\ request'.endpoint = "embed"
          /\ calls'[1].raised) =>
        /\ response'.exc.type = "ConnectionError"
        /\ response'.exc.msg[1] = "Failed to connect to Ollama at "
        /\ response'.exc.msg[2] = provider.host
        /\ response'.exc.msg[4] = provider.model
        /\ provider'._dimension = provider._dimension]_vars

\* the model's reply to the last embed call, when the API call returned one
ClaudeReplied ==
    /\ provider.kind = "claude"
    /\ pc = "returned"
    /\ request.endpoint = "embed"
    /\ request.args[2].ok

ClaudeReply == request.args[2].val

\* C15: the Claude provider's embed raises, and returns no vector, whenever the
\* model's reply is not exactly 10 comma-separated numeric values: a
\* non-numeric value, fewer than 10 values and more than 10 values all raise.
C15_ReplyMustBeTenNumbers ==
    (ClaudeReplied
       /\ ~(Len(ClaudeReply) = 10 /\ \A i \in 1..10 : ParseFloat(ClaudeReply[i]).ok))
    => response.exc.type # "none"

Returned_(name) == pc = "returned" /\ request.endpoint = name

ValidTags == {ClaudeTag, OpenAITag, OllamaTag, LocalTag}

\* C16: provider selection ignores letter case and surrounding whitespace in
\* Config.validate, create_provider_from_config and create_provider: a name
\* that is a valid tag up to case and surrounding whitespace is treated exactly
\* as the lower-case tag, with the same outcome and the same credentials, host
\* and model given to the provider.
C16_SelectionIgnoresCaseAndWhitespace ==
    LET norm(name) == Strip(Lower(name))
        same(r) == response = [value |-> r.value, exc |-> r.exc]
    IN /\ (Returned_("create_provider") /\ norm(request.args[1]) \in ValidTags) =>
            same(CreateProvider(norm(request.args[1]), request.args[2], request.args[3],
                                request.args[4], request.args[5]))
       /\ (Returned_("create_provider_from_config")
             /\ norm(request.args[1].EMBEDDING_PROVIDER) \in ValidTags) =>
            same(CreateProviderFromConfig(
                     [request.args[1] EXCEPT !.EMBEDDING_PROVIDER = norm(@)],
                     request.args[2]))
       /\ (Returned_("Config.validate")
             /\ norm(request.args[1].EMBEDDING_PROVIDER) \in ValidTags) =>
            same(ConfigValidate([request.args[1] EXCEPT !.EMBEDDING_PROVIDER = norm(@)],
                                provider))

\* what create_provider owes its caller when the configuration is wrong: a
\* ValueError with nothing constructed, naming the missing credential or
\* listing the valid tags
FactoryRejects ==
    LET pt == Strip(Lower(request.args[1])) IN
    /\ response.exc.type = "ValueError"
    /\ response.value = NoResponse
    /\ calls = <<>>
    /\ pt = ClaudeTag =>
         /\ response.exc.msg[1] = "API key is required for Claude provider. "
         /\ response.exc.msg[2] = "Set ANTHROPIC_API_KEY in environment or .env file."
    /\ pt = OpenAITag =>
         /\ response.exc.msg[1] = "API key is required for OpenAI provider. "
         /\ response.exc.msg[2] = "Set OPENAI_API_KEY in environment or .env file."
    /\ pt \notin ValidTags =>
         response.exc.msg[3] = ". Valid options: claude, openai, ollama, local"

\* what it owes otherwise: the one instance it constructed, of the normalized
\* type, an Ollama instance with the default host or model where none was given
FactoryReturns ==
    LET pt == Strip(Lower(request.args[1]))
        host == request.args[3]
        model_name == request.args[4]
    IN /\ response.exc.type = "none"
       /\ Len(calls) = 1
       /\ response.value = provider
       /\ response.value.kind =
            (IF pt = ClaudeTag THEN "claude" ELSE IF pt = OpenAITag THEN "openai"
             ELSE IF pt = OllamaTag THEN "ollama" ELSE "local")
       /\ pt = OllamaTag =>
            /\ response.value.host =
                 (IF host \in {PyNone, PyStr(<<>>)} THEN <<"http://localhost:11434">>
                  ELSE RStripSlash(host.v))
            /\ response.value.model =
                 (IF model_name = PyNone THEN "nomic-embed-text" ELSE model_name.v)

FactoryMisconfigured ==
    LET pt == Strip(Lower(request.args[1])) IN
    \/ pt \in {ClaudeTag, OpenAITag} /\ request.args[2] \in {PyNone, PyStr("")}
    \/ pt \notin ValidTags

\* C17 as stated: create_provider raises ValueError and constructs nothing when
\* the type is claude or openai and the API key is missing or empty, or when
\* the type is none of the four tags; in every other case it returns a
\* provider of the normalized type.
C17_FactoryRejectsOrReturns ==
    Returned_("create_provider") =>
        IF FactoryMisconfigured THEN FactoryRejects ELSE FactoryReturns

\* C17 (amended): as stated, except that for the local type the model load
\* may fail: the load error then leaves create_provider and nothing is
\* returned; in every remaining case a provider of the normalized type is
\* returned.
C17_FactoryRejectsReturnsOrLoadFails ==
    Returned_("create_provider") =>
        IF FactoryMisconfigured THEN FactoryRejects
        ELSE IF Strip(Lower(request.args[1])) = LocalTag /\ ~request.args[5].ok
        THEN /\ response.exc.type \notin {"none", "ValueError"}
             /\ response.value = NoResponse
             /\ provider = NoProvider
        ELSE FactoryReturns

C17_Witness ==
    /\ Returned_("create_provider")
    /\ request.args[1] = <<"O", "p", "e", "n", "A", "I">>
    /\ request.args[2] = PyStr("")
    /\ response.exc.type = "ValueError"
    /\ response.exc.msg[2] = "Set OPENAI_API_KEY in environment or .env file."
    /\ calls = <<>>

\* C18: a request whose endpoint is none of /embed, /search and /health is
\* answered {error, status_code: 404} naming the endpoint, with no call to the
\* provider or the store and the store left as it was; the 404 answer is given
\* to no routed request, and the status_code 500 answer, which predict keeps
\* for an exception leaving a handler, never stands in for it.
C18_UnknownEndpointIsNotFound ==
    [][(pc = "decoded" /\ pc' = "predicted") =>
        IF request.endpoint \in {"/embed", "/search", "/health"}
        THEN "status_code" \notin DOMAIN response'
        ELSE /\ DOMAIN response' = {"error", "status_code"}
             /\ response'.status_code = 404
             /\ response'.error = <<"Unknown endpoint: ", request.endpoint>>
             /\ calls' = <<>>
             /\ storage' = storage]_vars

C18_Witness ==
    /\ pc = "predicted"
    /\ request.endpoint = "/embed/"
    /\ request.fact_id = PyStr("f1")
    /\ request.statement = PyStr(<<"a">>)
    /\ response.status_code = 404
    /\ calls = <<>>

\* the facts embedded so far have distinct ids
DistinctIds ==
    \A i, j \in 1..Len(storage.ids) : storage.ids[i] = storage.ids[j] => i = j

\* no stored fact was embedded with one of the contexts the request names
MatchesNoFact ==
    /\ request.context_ids.tag = "list"
    /\ \A i \in 1..Len(storage.metadatas), k \in 1..Len(request.context_ids.v) :
         storage.metadatas[i].context_id # request.context_ids.v[k]

\* C19: after n facts with distinct ids were embedded, a search with no filter
\* and limit k returns exactly min(n, k) results in ascending order of the
\* store's distances, and a search whose context_ids match none of the stored
\* facts returns an empty results list with no error field.
C19_EndToEndSearch ==
    (AtSearchResponse /\ DistinctIds) =>
        LET n == Len(storage.ids)
            k == IF request.limit.tag = "int" THEN request.limit.v ELSE 10
            r == response.results
        IN /\ "error" \notin DOMAIN response
           /\ "status_code" \notin DOMAIN response
           /\ request.context_ids.tag = "absent" =>
                /\ Len(r) = (IF n < k THEN n ELSE k)
                /\ \A i \in 1..Len(r) : r[i].fact_id = StoreAnswer.ids[1][i]
                /\ \A i, j \in 1..Len(r) :
                     i < j => StoreAnswer.distances[1][i] <= StoreAnswer.distances[1][j]
           /\ MatchesNoFact => r = <<>>

\* C20: every store query /search makes asks for n_results equal to the
\* request's limit, 10 when none is given, and 1 <= n_results <= 100; the limit
\* is passed on as it is, and a request whose limit is outside [1, 100] makes
\* no call to the provider or the store.
C20_LimitPassedUnchanged ==
    AtSearchResponse =>
        /\ \A i \in CallsTo("collection.query") :
             /\ calls[i].n_results = (IF request.limit.tag = "int" THEN request.limit.v ELSE 10)
             /\ calls[i].n_results >= 1
             /\ calls[i].n_results <= 100
        /\ (request.limit.tag = "int" /\ (request.limit.v < 1 \/ request.limit.v > 100)) =>
             /\ calls = <<>>
             /\ response.results = <<>>
             /\ "error" \in DOMAIN response

C20_Witness ==
    /\ AtSearchResponse
    /\ request.limit = PyInt(100)
    /\ \E i \in CallsTo("collection.query") : calls[i].n_results = 100
    /\ "error" \notin DOMAIN response

BatchReturned ==
    /\ pc = "returned"
    /\ provider.kind = "openai"
    /\ request.endpoint = "embed_batch"

BatchCallFailed == BatchReturned /\ calls[1].raised

\* the position in the response of the item whose index is i
ItemAt(data, i) == CHOOSE k \in 1..Len(data) : data[k].index = i

\* C21: when the batch call succeeds, OpenAI embed_batch returns one vector
\* per input text in input order, whatever order the response lists its
\* items in: output[i] is the embedding of the item whose index is i, which
\* is the vector of the i-th text.
C21_BatchOrderRestored ==
    (BatchReturned /\ ~BatchCallFailed) =>
        LET texts == request.args[1]
            data == request.args[2].val
        IN /\ response.exc = NoExc
           /\ Len(response.value) = Len(texts)
           /\ \A i \in 1..Len(texts) :
                /\ response.value[i] = data[ItemAt(data, i - 1)].embedding
                /\ response.value[i] = ApiEmbedding(provider, texts[i])
           /\ Len(calls) = 1

C21_Witness ==
    /\ BatchReturned
    /\ ~BatchCallFailed
    /\ Len(request.args[1]) = 3
    /\ request.args[2].val[1].index = 2
    /\ request.args[2].val[2].index = 0
    /\ request.args[1][1] # request.args[1][3]
    /\ response.value[1] # response.value[3]

\* C22: when the batch call fails, OpenAI embed_batch does not raise the
\* batch failure: it calls embed once per text in input order and returns
\* those vectors in input order; only a failure of one of these per-text
\* calls reaches the caller, and no text after the failing one is embedded.
C22_BatchFailureFallsBack ==
    BatchCallFailed =>
        LET texts == request.args[1]
            oks == request.args[3]
            failing == {i \in 1..Len(texts) : ~oks[i]}
            made == IF failing = {} THEN Len(texts)
                    ELSE CHOOSE i \in failing : \A j \in failing : i <= j
        IN /\ Len(calls) = 1 + made
           /\ \A i \in 1..made :
                /\ calls[1 + i].input = PyStr(texts[i])
                /\ calls[1 + i].raised = ~oks[i]
           /\ (failing = {}) =>
                /\ response.exc = NoExc
                /\ Len(response.value) = Len(texts)
                /\ \A i \in 1..Len(texts) :
                     response.value[i] = ApiEmbedding(provider, texts[i])
           /\ (failing # {}) =>
                /\ response.exc # NoExc
                /\ calls[1 + made].raised

C22_Witness ==
    /\ BatchCallFailed
    /\ Len(request.args[1]) = 3
    /\ response.exc = NoExc
    /\ Len(response.value) = 3
    /\ Len(calls) = 4
    /\ response.value[1] # response.value[2]

\* C23: under any interleaving of embed and get_embedding_dimension calls on
\* one Ollama instance, once the dimension cell is set no later write changes
\* it to a different value.
C23_DimensionWriteIdempotent ==
    [][provider._dimension # PyNone => provider'._dimension = provider._dimension]_vars

Verified == pc \in {"returned", "exited", "serving"} /\ request.endpoint = "verify_ollama_health"

ListingReachable == request.args[1].raises = "none" /\ request.args[1].status < 400

\* the configured name is one of the listed names, or the name of a listed
\* model without its tag
ModelListed ==
    \E i \in 1..Len(request.args[1].models) :
        \/ request.args[1].models[i] = provider.model
        \/ SplitColonHead(request.args[1].models[i]) = provider.model

EmbeddingAttempted == CallsTo("requests.post") # {}

EmbeddingSucceeded ==
    \E i \in CallsTo("requests.post") :
        /\ ~calls[i].raised
        /\ calls[i].embedding # PyNone
        /\ calls[i].embedding # Vec(0, 0)

\* C24: verify_ollama_health makes three checks in order and returns True
\* exactly when all three hold: the listing endpoint is reachable, the
\* configured model name is in its listing, and one embedding call succeeds;
\* the embedding call is made when, and only when, the first two checks
\* passed; main exits with a non-zero status whenever the check returned
\* False.
C24_ThreeOrderedChecks ==
    Verified =>
        /\ response.value = (ListingReachable /\ ModelListed /\ EmbeddingSucceeded)
        /\ EmbeddingAttempted = (ListingReachable /\ ModelListed)
        /\ \A i \in CallsTo("requests.post") : i > 1 /\ calls[1].fn = "requests.get"
        /\ (pc # "returned") =>
             /\ (pc = "exited") = ~response.value
             /\ (pc = "exited") => (response.exit_status.tag = "int"
                                    /\ response.exit_status.v # 0)

\* the length of one of the answer's parallel arrays, -1 when the answer has
\* no such array
ArrayLen(r, key) ==
    IF key \notin DOMAIN r THEN 0 - 1
    ELSE IF r[key] = <<>> THEN 0 - 1
    ELSE Len(r[key][1])

Malformed(r) ==
    \/ ArrayLen(r, "ids") # ArrayLen(r, "distances")
    \/ ArrayLen(r, "ids") # ArrayLen(r, "documents")

\* result i cannot be assembled: its distance or its document is missing, or
\* its score cannot be computed
CannotAssemble(r, i) ==
    \/ ArrayLen(r, "distances") < i
    \/ ArrayLen(r, "documents") < i
    \/ r.distances[1][i] = 0 - DistScale

AssemblyFails(r) == \E i \in 1..ArrayLen(r, "ids") : CannotAssemble(r, i)

\* C29 as stated: a store answer whose ids, distances and documents arrays
\* differ in length or lack an array, or one of whose results cannot be
\* converted, is answered with results = [] and an error field.
C29_MalformedAnswerIsError ==
    (StoreAnswered /\ StoreAnswer.tag = "dict"
       /\ (Malformed(StoreAnswer) \/ AssemblyFails(StoreAnswer)))
        => response.results = <<>> /\ "error" \in DOMAIN response

\* C29: /search never returns a partial result list.  When a result cannot
\* be assembled (its distance or document is missing from the store's
\* arrays, or its conversion fails) the response is results = [] with an
\* error field, not the results assembled so far; otherwise it is one result
\* per returned id and no error, also when the distances or documents array
\* is longer than the ids array or is missing while no id is returned.
C29_FailedAssemblyIsError ==
    (StoreAnswered /\ StoreAnswer.tag = "dict") =>
        IF AssemblyFails(StoreAnswer)
        THEN response.results = <<>> /\ "error" \in DOMAIN response
        ELSE /\ "error" \notin DOMAIN response
             /\ Len(response.results) = (IF StoreAnswer.ids = <<>> THEN 0
                                         ELSE ArrayLen(StoreAnswer, "ids"))

C29_Witness ==
    /\ StoreAnswered
    /\ StoreAnswer.tag = "dict"
    /\ ArrayLen(StoreAnswer, "ids") = 2
    /\ ~CannotAssemble(StoreAnswer, 1)
    /\ CannotAssemble(StoreAnswer, 2)
    /\ ArrayLen(StoreAnswer, "distances") = 2
    /\ response.results = <<>>
    /\ "error" \in DOMAIN response

AtPipelineResponse == pc = "predicted" /\ request.endpoint \in {"/embed", "/search"}

StoreCalls == CallsTo("collection.add") \cup CallsTo("collection.query")

InlineFailure ==
    IF request.endpoint = "/embed"
    THEN DOMAIN response = {"success", "fact_id", "message"} /\ response.success = FALSE
    ELSE DOMAIN response = {"results", "error"} /\ response.results = <<>>

\* C25: no call is retried.  An /embed or /search request calls
\* provider.embed at most once and the store at most once; a call that fails
\* is the last call of the request, which is answered with the inline
\* failure shape; the provider is called before the store, so the store is
\* never called after a provider failure.
C25_NoRetry ==
    AtPipelineResponse =>
        /\ Cardinality(CallsTo("provider.embed")) <= 1
        /\ Cardinality(StoreCalls) <= 1
        /\ Len(calls) = Cardinality(CallsTo("provider.embed")) + Cardinality(StoreCalls)
        /\ \A i \in 1..Len(calls) : calls[i].raised => (i = Len(calls) /\ InlineFailure)
        /\ \A i \in StoreCalls :
             /\ i = 2
             /\ calls[1].fn = "provider.embed"
             /\ ~calls[1].raised
        /\ (request.endpoint = "/embed") => CallsTo("collection.query") = {}
        /\ (request.endpoint = "/search") => CallsTo("collection.add") = {}

C25_Witness ==
    /\ AtPipelineResponse
    /\ request.endpoint = "/embed"
    /\ Len(calls) = 1
    /\ calls[1].fn = "provider.embed"
    /\ calls[1].raised
    /\ response.success = FALSE

\* C28: /embed reports success = true exactly when the store's insert was
\* called once and returned, with ids = [fact_id], documents = [statement]
\* and embeddings = [the vector provider.embed returned for the statement];
\* a request answered with success = false leaves the store contents as they
\* were.
C28_SuccessIffInserted ==
    [][EmbedStep =>
         LET adds == {i \in 1..Len(calls') : calls'[i].fn = "collection.add"} IN
         /\ (response'.success = TRUE) =
              (/\ Cardinality(adds) = 1
               /\ \A i \in adds :
                    /\ ~calls'[i].raised
                    /\ calls'[i].ids = <<request.fact_id.v>>
                    /\ calls'[i].documents = <<request.statement.v>>
                    /\ calls'[i].embeddings = <<mock_embed(request.statement.v)>>)
         /\ (response'.success = FALSE) => storage' = storage
         /\ (response'.success = TRUE) =>
              /\ Len(storage'.ids) = Len(storage.ids) + 1
              /\ storage'.ids[Len(storage'.ids)] = request.fact_id.v
              /\ storage'.documents[Len(storage'.ids)] = request.statement.v
              /\ storage'.embeddings[Len(storage'.ids)] = mock_embed(request.statement.v)]_vars

C28_Witness ==
    /\ AtEmbedResponse
    /\ response.success = TRUE
    /\ Len(storage.ids) = 2
    /\ Len(calls) = 2
    /\ ~calls[2].raised
    /\ storage.documents[2] = request.statement.v
    /\ storage.documents[2] # storage.documents[1]

ExpandReturned == pc = "returned" /\ request.endpoint = "_expand_features"

\* the vector a returned value stands for has unit length: it was divided by
\* a positive magnitude, the square root of the sum of its squares
UnitLength(v) == v.magnitude2 > 0 /\ v.magnitude2 = SumSquares(v.values, 1, v.dim)

\* C26: for a non-empty feature list of length n and a target dimension
\* d >= 1, _expand_features returns a vector of length exactly d whose
\* element i is features[i mod n] divided by one common scale factor; it is
\* the vector embed builds from the parsed reply, so embed returns a vector
\* of length 1024 whatever n is.
C26_TiledToTargetLength ==
    /\ (ExpandReturned /\ request.args[1] # <<>> /\ request.args[2] >= 1) =>
         LET features == request.args[1]
             d == request.args[2]
             v == response.value
         IN /\ v.dim = d
            /\ Len(v.values) = d
            /\ \A i \in 1..d : v.values[i] = features[((i - 1) % Len(features)) + 1]
            /\ v.magnitude2 = SumSquares(v.values, 1, d)
            /\ v = ExpandFeatures(features, d)
    /\ (ClaudeReplied /\ response.exc = NoExc) =>
         /\ response.value.dim = ClaudeDimension
         /\ Len(response.value.values) = ClaudeDimension

C26_Witness ==
    /\ ExpandReturned
    /\ Len(request.args[1]) = 3
    /\ request.args[1][1] # request.args[1][3]
    /\ request.args[2] = ClaudeDimension
    /\ response.value.dim = ClaudeDimension
    /\ response.value.values[ClaudeDimension] = request.args[1][1]

\* C27: every vector the Claude provider's embed returns has unit length,
\* for every reply that parses, a reply of all-zero scores included.
C27_EmbedIsUnitLength ==
    (ClaudeReplied /\ response.exc = NoExc) => UnitLength(response.value)

\* C30: every call of _expand_features terminates, the call with an empty
\* feature list and a positive target dimension included.
C30_ExpandFeaturesTerminates ==
    (pc = "expanding") ~> (pc = "returned")

====
